---------------------------- MODULE Spec2Model ----------------------------
(***************************************************************************)
(* A model of the SheetGuard formula-to-graph analysis engine:             *)
(*   core/graph.py          build_dependency_graph, detect_cycles          *)
(*   detectors/impact.py    downstream_reach, rank_high_risk_cells         *)
(*   detectors/constants.py detect_hardcoded_constants                     *)
(*   cli/main.py            scan_workbook and its _compute_risk_tier       *)
(*                                                                         *)
(* Text (sheet titles, addresses, node identifiers, formulas) is a         *)
(* sequence of one-character strings, so that concatenation, splitting,    *)
(* scanning and comparison are computed character by character as the      *)
(* Python code computes them.                                              *)
(***************************************************************************)
EXTENDS Integers, Sequences, FiniteSets, TLC

(***************************************************************************)
(* Bounds of the model (not program constants).                            *)
(***************************************************************************)
\* longest reference list of one formula cell of the small workbooks
MaxRefs == 2
\* largest limit handed to detect_cycles when it is called on its own
MaxLimit == 3
\* largest max_nodes handed to downstream_reach when it is called on its own
MaxCap == 3
\* largest top_n handed to rank_high_risk_cells
MaxTopN == 4
\* largest value of one signal count handed to _compute_risk_tier
MaxSignal == 1
\* longest formula text enumerated exhaustively for the constants detector
MaxFormulaLen == 4
\* most formula cells in one row of the sheets handed to detect_formula_drift
\* under its default configuration
MaxRowCells == 6

(***************************************************************************)
(* Program constants.                                                      *)
(***************************************************************************)
\* main.py:301  detect_cycles(g, limit=25)
SCAN_CYCLE_LIMIT == 25
\* impact.py:9  max_nodes: int = 200000
DEFAULT_MAX_NODES == 200000
\* main.py:127  top_n: int = 10
DEFAULT_TOP_N == 10

\* None where the code expects text (an absent sheet qualifier)
None == <<"<None>">>
\* an optional configuration value: absent, or present with a value
Absent == <<>>
Some(x) == <<x>>
\* dict.get(key, default) on an optional value
Get(opt, default) == IF opt = Absent THEN default ELSE opt[1]

(***************************************************************************)
(* Text helpers.                                                           *)
(***************************************************************************)
\* printable ASCII in code-point order, from 32 (space) to 126 (code point 96
\* is spelled out: it cannot be written in a string)
AsciiChars ==
  <<" ", "!", "\"", "#", "$", "%", "&", "'", "(", ")", "*", "+", ",", "-", ".", "/",
    "0", "1", "2", "3", "4", "5", "6", "7", "8", "9", ":", ";", "<", "=", ">", "?",
    "@", "A", "B", "C", "D", "E", "F", "G", "H", "I", "J", "K", "L", "M", "N", "O",
    "P", "Q", "R", "S", "T", "U", "V", "W", "X", "Y", "Z", "[", "\\", "]", "^", "_",
    "grave", "a", "b", "c", "d", "e", "f", "g", "h", "i", "j", "k", "l", "m", "n", "o",
    "p", "q", "r", "s", "t", "u", "v", "w", "x", "y", "z", "{", "|", "}", "~">>

\* ord(c) of Python for a printable ASCII character
Ord(c) == 31 + (CHOOSE i \in 1..Len(AsciiChars) : AsciiChars[i] = c)

Min(a, b) == IF a <= b THEN a ELSE b
Max(a, b) == IF a >= b THEN a ELSE b

Range(s) == {s[i] : i \in 1..Len(s)}

\* Python's str < str: lexicographic by code point, a proper prefix is smaller
StrLt(a, b) ==
  \E i \in 1..(Min(Len(a), Len(b)) + 1) :
     /\ \A j \in 1..(i - 1) : a[j] = b[j]
     /\ \/ i > Len(a) /\ i <= Len(b)
        \/ i <= Len(a) /\ i <= Len(b) /\ Ord(a[i]) < Ord(b[i])

\* index of the first occurrence of character c in s, 0 when absent (str.find + 1)
FindChar(s, c) ==
  IF \E i \in 1..Len(s) : s[i] = c
    THEN CHOOSE i \in 1..Len(s) : s[i] = c /\ \A j \in 1..(i - 1) : s[j] # c
    ELSE 0

\* decimal text of a natural number (str(int))
RECURSIVE DecStr(_)
DecStr(n) ==
  IF n < 10 THEN <<AsciiChars[17 + n]>>
            ELSE DecStr(n \div 10) \o <<AsciiChars[17 + (n % 10)]>>

(***************************************************************************)
(* nx.DiGraph as the code uses it: nodes and edges in insertion order      *)
(* (networkx keeps both in insertion-ordered dicts).                       *)
(***************************************************************************)
EmptyGraph == [nodes |-> <<>>, edges |-> <<>>]

has_node(g, n) == n \in Range(g.nodes)

has_edge(g, u, v) == <<u, v>> \in Range(g.edges)

add_node(g, n) ==
  IF has_node(g, n) THEN g ELSE [g EXCEPT !.nodes = Append(@, n)]

\* an add_edge for an undirected graph: the edge is entered both ways
add_edge_both_ways(g, u, v) ==
  LET g1 == add_node(add_node(g, u), v)
      g2 == IF has_edge(g1, u, v) THEN g1 ELSE [g1 EXCEPT !.edges = Append(@, <<u, v>>)]
  IN  IF has_edge(g2, v, u) THEN g2 ELSE [g2 EXCEPT !.edges = Append(@, <<v, u>>)]

\* an add_edge that keeps parallel edges
add_edge_parallel(g, u, v) ==
  [add_node(add_node(g, u), v) EXCEPT !.edges = Append(@, <<u, v>>)]

\* DiGraph.add_edge: both end points become nodes (u first), a repeated edge is a no-op
add_edge(g, u, v) ==
  LET g1 == add_node(add_node(g, u), v)
  IN  IF has_edge(g1, u, v) THEN g1 ELSE [g1 EXCEPT !.edges = Append(@, <<u, v>>)]

\* g.successors(n), in adjacency (insertion) order
successors(g, n) ==
  LET From(e) == e[1] = n
      out == SelectSeq(g.edges, From)
  IN  [i \in 1..Len(out) |-> out[i][2]]

\* g.predecessors(n), as a set
predecessors(g, n) == {e[1] : e \in {x \in Range(g.edges) : x[2] = n}}

out_degree(g, n) == Len(successors(g, n))

EdgeSet(g) == Range(g.edges)
NodeSet(g) == Range(g.nodes)

(***************************************************************************)
(* core/graph.py                                                           *)
(***************************************************************************)
\* _node_id: f"{sheet}!{addr}"
node_id(sheet, addr) == sheet \o <<"!">> \o addr

\* str.strip() for the blanks the model's alphabet has
RECURSIVE Strip(_)
Strip(s) ==
  IF s = <<>> THEN s
  ELSE IF Head(s) = " " THEN Strip(Tail(s))
  ELSE IF s[Len(s)] = " " THEN Strip(SubSeq(s, 1, Len(s) - 1))
  ELSE s

\* str(sheet) if sheet else str(sheet_name): the sheet a token of a formula of
\* sheet_name names
RefSheet(sheet_name, r) ==
  IF r.sheet # None /\ r.sheet # <<>> THEN r.sheet ELSE sheet_name

\* ref_node: the node a token of a formula of sheet_name resolves to
RefNode(sheet_name, r) == node_id(RefSheet(sheet_name, r), Strip(r.raw))

\* an iteration that files a side-table record for every token, symbolic or not
AddRefRecordingAll(st, sheet_name, dep, r) ==
  LET raw == Strip(r.raw)
      ref_node == RefNode(sheet_name, r)
  IN  IF raw = <<>> THEN st
      ELSE [g |-> add_edge(st.g, dep, ref_node),
            symbolic_edges |->
              Append(st.symbolic_edges,
                     [dependent |-> dep, ref |-> ref_node, raw |-> raw,
                      sheet |-> RefSheet(sheet_name, r), kind |-> r.kind])]

\* one iteration of the loop over refs (graph.py 56-80): st = [g, symbolic_edges]
AddRef(st, sheet_name, dep, r) ==
  LET raw == Strip(r.raw)
      ref_sheet == RefSheet(sheet_name, r)
      ref_node == RefNode(sheet_name, r)
  IN  IF raw = <<>> THEN st
      ELSE [g |-> add_edge(st.g, dep, ref_node),
            symbolic_edges |->
              IF r.symbolic
                THEN Append(st.symbolic_edges,
                            [dependent |-> dep, ref |-> ref_node, raw |-> raw,
                             sheet |-> ref_sheet, kind |-> r.kind])
                ELSE st.symbolic_edges]

\* build_dependency_graph(sheet_name=, cell_addr=, refs=, g=, symbolic_edges=),
\* the incremental call style: returns the mutated graph and side table
RECURSIVE AddRefs(_, _, _, _)
AddRefs(st, sheet_name, dep, refs) ==
  IF refs = <<>> THEN st
  ELSE AddRefs(AddRef(st, sheet_name, dep, Head(refs)), sheet_name, dep, Tail(refs))

\* a builder that leaves the dependent node to the edges to create
build_edges_only(sheet_name, cell_addr, refs, g, symbolic_edges) ==
  AddRefs([g |-> g, symbolic_edges |-> symbolic_edges], sheet_name,
          node_id(sheet_name, cell_addr), refs)

build_dependency_graph(sheet_name, cell_addr, refs, g, symbolic_edges) ==
  LET dep == node_id(sheet_name, cell_addr)
  IN  AddRefs([g |-> add_node(g, dep), symbolic_edges |-> symbolic_edges],
              sheet_name, dep, refs)

\* position of node n in the graph's node order
NodeIndex(g, n) == CHOOSE i \in 1..Len(g.nodes) : g.nodes[i] = n

\* the simple cycles through s whose other nodes all come after s in node order,
\* found by extending the path along outgoing edges
RECURSIVE CyclesFrom(_, _, _)
CyclesFrom(g, s, path) ==
  LET last == path[Len(path)]
      closes == IF has_edge(g, last, s) THEN {path} ELSE {}
      ext == {v \in Range(successors(g, last)) :
                 v \notin Range(path) /\ NodeIndex(g, v) > NodeIndex(g, s)}
  IN  closes \cup UNION {CyclesFrom(g, s, Append(path, v)) : v \in ext}

\* a cycle enumeration that misses the self-loops (what C3 must tell apart)
SimpleCyclesWithoutSelfLoops(g) ==
  {c \in UNION {CyclesFrom(g, s, <<s>>) : s \in NodeSet(g)} : Len(c) > 1}

\* nx.simple_cycles(g): every elementary circuit once; here each is written from
\* its first node in node order (its canonical rotation), [v] for a self-loop
SimpleCycles(g) == UNION {CyclesFrom(g, s, <<s>>) : s \in NodeSet(g)}

\* the rotation of cycle c that starts at its k-th node
Rotate(c, k) == SubSeq(c, k, Len(c)) \o SubSeq(c, 1, k - 1)
Rotations(c) == {Rotate(c, k) : k \in 1..Len(c)}
\* the canonical rotation of a cycle of g
Canon(g, c) ==
  CHOOSE r \in Rotations(c) : \A k \in 2..Len(r) : NodeIndex(g, r[1]) < NodeIndex(g, r[k])

\* The cycles the generator nx.simple_cycles(g) can yield next, when `out` holds
\* the entries yielded so far.  networkx yields the self-loops first, in node
\* order, and then the longer cycles in an order (and from a start node) that
\* depends on set iteration: any remaining cycle, in any rotation.
NextCycles(g, out) ==
  LET done == {Canon(g, out[i].cells) : i \in 1..Len(out)}
      left == SimpleCycles(g) \ done
      loops == {c \in left : Len(c) = 1}
  IN  IF loops # {}
        THEN {c \in loops : \A d \in loops : NodeIndex(g, c[1]) <= NodeIndex(g, d[1])}
        ELSE UNION {Rotations(c) : c \in left}

(***************************************************************************)
(* detectors/impact.py                                                     *)
(***************************************************************************)
\* the while loop of downstream_reach (impact.py 21-26)
RECURSIVE ReachLoop(_, _, _, _)
ReachLoop(g, visited, q, max_nodes) ==
  IF q = <<>> \/ ~(Cardinality(visited) < max_nodes)
    THEN visited
    ELSE LET node == Head(q)
             Fresh(nxt) == nxt \notin visited
             new == SelectSeq(successors(g, node), Fresh)
         IN  ReachLoop(g, visited \cup Range(new), Tail(q) \o new, max_nodes)

\* the visited set of downstream_reach(g, start, max_nodes)
ReachVisited(g, start, max_nodes) ==
  LET first == successors(g, start)
  IN  ReachLoop(g, Range(first), first, max_nodes)

downstream_reach(g, start, max_nodes) == Cardinality(ReachVisited(g, start, max_nodes))

\* a comparison that ignores the node identifier (what C9 must tell apart): ties
\* then keep their input order
ScoredLtIgnoringId(a, b) ==
  \/ a[1] < b[1]
  \/ a[1] = b[1] /\ a[2] < b[2]

\* tuple comparison (reach, fan_out, n) < (reach, fan_out, n) of Python
ScoredLt(a, b) ==
  \/ a[1] < b[1]
  \/ a[1] = b[1] /\ a[2] < b[2]
  \/ a[1] = b[1] /\ a[2] = b[2] /\ StrLt(a[3], b[3])

\* place x in a descending list, after the entries that are not smaller (stable)
RECURSIVE InsertDesc(_, _)
InsertDesc(sorted, x) ==
  IF sorted = <<>> THEN <<x>>
  ELSE IF ScoredLt(Head(sorted), x) THEN <<x>> \o sorted
  ELSE <<Head(sorted)>> \o InsertDesc(Tail(sorted), x)

\* scored.sort(reverse=True)
RECURSIVE SortScored(_)
SortScored(scored) ==
  IF scored = <<>> THEN <<>>
  ELSE InsertDesc(SortScored(SubSeq(scored, 1, Len(scored) - 1)), scored[Len(scored)])

\* a slice that keeps one entry too many (what C8 must tell apart)
SliceThrough(seq, n) == SubSeq(seq, 1, Min(n + 1, Len(seq)))

\* seq[:n] of Python, also for a negative n
SliceTo(seq, n) ==
  IF n >= 0 THEN SubSeq(seq, 1, Min(n, Len(seq)))
            ELSE SubSeq(seq, 1, Max(Len(seq) + n, 0))

\* the scored list of rank_high_risk_cells (impact.py 35-39)
Scored(g, formula_nodes) ==
  [i \in 1..Len(formula_nodes) |->
     <<downstream_reach(g, formula_nodes[i], DEFAULT_MAX_NODES),
       out_degree(g, formula_nodes[i]),
       formula_nodes[i]>>]

rank_high_risk_cells(g, formula_nodes, top_n) ==
  LET top == SliceTo(SortScored(Scored(g, formula_nodes)), top_n)
  IN  [i \in 1..Len(top) |->
         [cell |-> top[i][3], downstream_reach |-> top[i][1], direct_fan_out |-> top[i][2]]]

(***************************************************************************)
(* cli/main.py: _compute_risk_tier                                         *)
(*                                                                         *)
(* scoring_cfg is the app.reporting.risk_scoring block:                    *)
(*   [overrides |-> [cycle_always_high |-> optional BOOLEAN],              *)
(*    sheet |-> scope block, workbook |-> scope block]                     *)
(* a scope block holds optional thresholds [high, medium], optional        *)
(* weights and the six optional boolean toggles.  Weights and thresholds   *)
(* are integers; the score is kept in hundredths (the code divides the     *)
(* symbolic count by 100.0).                                               *)
(***************************************************************************)
\* "; ".join(bits)
RECURSIVE Join(_)
Join(bits) ==
  IF bits = <<>> THEN ""
  ELSE IF Len(bits) = 1 THEN bits[1]
  ELSE bits[1] \o "; " \o Join(Tail(bits))

\* int(signals_map.get(key, 0) or 0)
SignalOf(opt) == Get(opt, 0)

\* float(d.get(key, default) or default): a missing or zero value gives the default
NumOr(opt, default) == IF Get(opt, default) = 0 THEN default ELSE Get(opt, default)

\* main.py:511-512  thresholds.get("high", 999999) or 999999
NO_THRESHOLD == 999999

ContribKeys ==
  <<"cycles", "top_risk_cells", "volatile_hits", "hardcoded_constants",
    "orphan_formulas", "symbolic_refs_per_100">>

ContribLabel(k) ==
  CASE k = "cycles" -> "circular dependency"
    [] k = "top_risk_cells" -> "high-impact drivers"
    [] k = "volatile_hits" -> "volatile functions"
    [] k = "hardcoded_constants" -> "embedded multipliers"
    [] k = "orphan_formulas" -> "orphan formulas"
    [] k = "symbolic_refs_per_100" -> "symbolic references"

\* the weighted contributions, in hundredths (main.py 499-508)
Contrib100(weights, signals_map, has_cycles, top_risk_cells) ==
  [cycles |-> 100 * NumOr(weights.cycles, 0) * (IF has_cycles THEN 1 ELSE 0),
   top_risk_cells |-> 100 * NumOr(weights.top_risk_cells, 0) * top_risk_cells,
   volatile_hits |-> 100 * NumOr(weights.volatile_hits, 0) * SignalOf(signals_map.volatile),
   hardcoded_constants |->
     100 * NumOr(weights.hardcoded_constants, 0) * SignalOf(signals_map.constants),
   orphan_formulas |-> 100 * NumOr(weights.orphan_formulas, 0) * SignalOf(signals_map.orphans),
   symbolic_refs_per_100 |->
     NumOr(weights.symbolic_refs_per_100, 0) * SignalOf(signals_map.symbolic)]

\* sum(contrib.values()), in hundredths
Score100(c) ==
  c.cycles + c.top_risk_cells + c.volatile_hits + c.hardcoded_constants
    + c.orphan_formulas + c.symbolic_refs_per_100

\* sorted(non-zero contributions, key=value, reverse=True): stable, declaration order
RECURSIVE InsertByValue(_, _, _)
InsertByValue(c, sorted, k) ==
  IF sorted = <<>> THEN <<k>>
  ELSE IF c[Head(sorted)] < c[k] THEN <<k>> \o sorted
  ELSE <<Head(sorted)>> \o InsertByValue(c, Tail(sorted), k)

RECURSIVE RankedUpTo(_, _)
RankedUpTo(c, i) ==
  IF i = 0 THEN <<>>
  ELSE IF c[ContribKeys[i]] > 0 THEN InsertByValue(c, RankedUpTo(c, i - 1), ContribKeys[i])
  ELSE RankedUpTo(c, i - 1)

RankedContrib(c) == RankedUpTo(c, Len(ContribKeys))

\* the weighted branch (main.py 490-533)
WeightedTier(thresholds, weights, signals_map, has_cycles, top_risk_cells) ==
  LET c == Contrib100(weights, signals_map, has_cycles, top_risk_cells)
      score == Score100(c)
      high_th == NumOr(thresholds.high, NO_THRESHOLD)
      med_th == NumOr(thresholds.medium, NO_THRESHOLD)
      tier == IF score >= 100 * high_th THEN "HIGH"
              ELSE IF score >= 100 * med_th THEN "MEDIUM"
              ELSE "LOW"
      ranked == SubSeq(RankedContrib(c), 1, Min(3, Len(RankedContrib(c))))
  IN  <<tier, Join([i \in 1..Len(ranked) |-> ContribLabel(ranked[i])])>>

\* the boolean fallback (main.py 535-570)
FallbackTier(sc, signals_map, has_cycles, top_risk_cells) ==
  LET sym == SignalOf(signals_map.symbolic)
      vol == SignalOf(signals_map.volatile)
      consts == SignalOf(signals_map.constants)
      orphans == SignalOf(signals_map.orphans)
      tier ==
        IF Get(sc.cycles_make_high, TRUE) /\ has_cycles THEN "HIGH"
        ELSE IF \/ Get(sc.top_risk_counts_as_medium, TRUE) /\ top_risk_cells > 0
                \/ Get(sc.volatile_counts_as_medium, TRUE) /\ vol > 0
                \/ Get(sc.symbolic_counts_as_medium, TRUE) /\ sym > 0
                \/ Get(sc.constants_counts_as_medium, TRUE) /\ consts > 0
                \/ Get(sc.orphans_counts_as_medium, TRUE) /\ orphans > 0
          THEN "MEDIUM"
        ELSE "LOW"
      bits ==
        (IF has_cycles THEN <<"circular dependency">> ELSE <<>>)
        \o (IF top_risk_cells > 0
              THEN <<ToString(top_risk_cells) \o " high-impact cell(s)">> ELSE <<>>)
        \o (IF vol > 0 THEN <<ToString(vol) \o " volatile hit(s)">> ELSE <<>>)
        \o (IF sym > 0 THEN <<ToString(sym) \o " symbolic ref(s)">> ELSE <<>>)
        \o (IF consts > 0 THEN <<ToString(consts) \o " embedded constant(s)">> ELSE <<>>)
        \o (IF orphans > 0 THEN <<ToString(orphans) \o " orphan formula(s)">> ELSE <<>>)
  IN  <<tier, Join(bits)>>

\* an override that is off unless configured (what C1 must tell apart)
CycleOverrideOptIn(scoring_cfg, has_cycles) ==
  Get(scoring_cfg.overrides.cycle_always_high, FALSE) /\ has_cycles

\* the override test (main.py 486): bool(overrides.get("cycle_always_high", True))
CycleOverride(scoring_cfg, has_cycles) ==
  Get(scoring_cfg.overrides.cycle_always_high, TRUE) /\ has_cycles

\* _compute_risk_tier(scope=, signals_map=, has_cycles=, top_risk_cells=, scoring_cfg=)
\* returns <<tier, reason>>
compute_risk_tier(scope, signals_map, has_cycles, top_risk_cells, scoring_cfg) ==
  LET sc == scoring_cfg[scope]
  IN  IF CycleOverride(scoring_cfg, has_cycles)
        THEN <<"HIGH", "circular dependency detected">>
      ELSE IF sc.thresholds # Absent /\ sc.weights # Absent
        THEN WeightedTier(sc.thresholds[1], sc.weights[1], signals_map, has_cycles,
                          top_risk_cells)
      ELSE FallbackTier(sc, signals_map, has_cycles, top_risk_cells)

(***************************************************************************)
(* detectors/constants.py                                                  *)
(***************************************************************************)
Digits == {"0", "1", "2", "3", "4", "5", "6", "7", "8", "9"}
IsDigit(c) == c \in Digits
\* str.isalpha() on one ASCII character
IsAlpha(c) ==
  \E i \in 1..Len(AsciiChars) :
     AsciiChars[i] = c /\ (i \in 34..59 \/ i \in 66..91)
\* str.isspace() on the characters the model's texts contain
IsSpace(c) == c = " "
\* str.upper() on one ASCII character
UpperChar(c) ==
  IF \E i \in 66..91 : AsciiChars[i] = c
    THEN AsciiChars[(CHOOSE i \in 66..91 : AsciiChars[i] = c) - 32]
    ELSE c
Upper(s) == [i \in 1..Len(s) |-> UpperChar(s[i])]

\* s[i] at 1-based index i, "" outside the text
CharAt(s, i) == IF i >= 1 /\ i <= Len(s) THEN s[i] ELSE ""

\* the index just after the longest run of digits that starts at p
RECURSIVE DigitsEnd(_, _)
DigitsEnd(s, p) == IF IsDigit(CharAt(s, p)) THEN DigitsEnd(s, p + 1) ELSE p

\* _NUM_RE matched at index p: the index just after the match, 0 when it does
\* not match.  [+-]? (\d+(\.\d*)? | \.\d+) (e[+-]?\d+)?, case-insensitive, greedy
NumMatchEnd(s, p) ==
  LET q == IF CharAt(s, p) \in {"+", "-"} THEN p + 1 ELSE p
      body ==
        IF IsDigit(CharAt(s, q))
          THEN LET d == DigitsEnd(s, q)
               IN  IF CharAt(s, d) = "." THEN DigitsEnd(s, d + 1) ELSE d
        ELSE IF CharAt(s, q) = "." /\ IsDigit(CharAt(s, q + 1))
          THEN DigitsEnd(s, q + 1)
        ELSE 0
      r == IF CharAt(s, body + 1) \in {"+", "-"} THEN body + 2 ELSE body + 1
  IN  IF body = 0 THEN 0
      ELSE IF CharAt(s, body) \in {"e", "E"} /\ IsDigit(CharAt(s, r))
        THEN DigitsEnd(s, r)
      ELSE body

\* _NUM_RE.finditer(s): the non-overlapping matches from index p on, left to right,
\* each [start, end) with 1-based start and exclusive end
RECURSIVE NumMatches(_, _)
NumMatches(s, p) ==
  IF p > Len(s) THEN <<>>
  ELSE IF NumMatchEnd(s, p) # 0
    THEN <<[start |-> p, end |-> NumMatchEnd(s, p)]>> \o NumMatches(s, NumMatchEnd(s, p))
  ELSE NumMatches(s, p + 1)

\* _strip_quoted_segments: blank what lies between double quotes, offsets kept
\* in_q after the first i characters: whether an odd number of quotes was passed
InQuote(s, i) == Cardinality({j \in 1..i : s[j] = "\""}) % 2 = 1

strip_quoted_segments(s) ==
  [i \in 1..Len(s) |-> IF s[i] # "\"" /\ InQuote(s, i - 1) THEN " " ELSE s[i]]

\* _looks_like_cell_ref_near(s, start, end)
looks_like_cell_ref_near(s, start, end) ==
  LET prev == CharAt(s, start - 1)
      nxt == CharAt(s, end)
  IN  \/ IsAlpha(prev) \/ prev = "$"
      \/ IsAlpha(nxt) \/ nxt = "$"

Operators == {"*", "/", "+", "-"}

RECURSIVE SkipSpaceLeft(_, _)
SkipSpaceLeft(s, i) == IF i >= 1 /\ IsSpace(s[i]) THEN SkipSpaceLeft(s, i - 1) ELSE i
RECURSIVE SkipSpaceRight(_, _)
SkipSpaceRight(s, j) == IF j <= Len(s) /\ IsSpace(s[j]) THEN SkipSpaceRight(s, j + 1) ELSE j

\* _nearest_operator(s, start): start is the 1-based index of the literal's first
\* character; the scan to the right begins at that same character (j = start)
nearest_operator(s, start) ==
  LET i == SkipSpaceLeft(s, start - 1)
      j == SkipSpaceRight(s, start)
  IN  IF i >= 1 /\ s[i] \in Operators THEN s[i]
      ELSE IF j <= Len(s) /\ s[j] \in Operators THEN s[j]
      ELSE ""

\* the index before the identifier characters (letters, '.', '_') that end at j
RECURSIVE NameStart(_, _)
NameStart(s, j) ==
  IF j >= 1 /\ (IsAlpha(s[j]) \/ s[j] \in {".", "_"}) THEN NameStart(s, j - 1) ELSE j

\* _enclosing_function(formula, pos): walk left from pos tracking parenthesis depth
RECURSIVE EnclosingWalk(_, _, _)
EnclosingWalk(s, i, depth) ==
  IF i < 1 THEN <<>>
  ELSE IF s[i] = ")" THEN EnclosingWalk(s, i - 1, depth + 1)
  ELSE IF s[i] = "("
    THEN IF depth = 0
           THEN Upper(Strip(SubSeq(s, NameStart(s, i - 1) + 1, i - 1)))
           ELSE EnclosingWalk(s, i - 1, depth - 1)
  ELSE EnclosingWalk(s, i - 1, depth)

enclosing_function(s, pos) == EnclosingWalk(s, pos, 0)

\* lit.lstrip("+-")
RECURSIVE LStripSign(_)
LStripSign(lit) ==
  IF lit # <<>> /\ Head(lit) \in {"+", "-"} THEN LStripSign(Tail(lit)) ELSE lit

RECURSIVE ToNat(_)
ToNat(ds) ==
  IF ds = <<>> THEN 0
  ELSE 10 * ToNat(SubSeq(ds, 1, Len(ds) - 1)) + (Ord(ds[Len(ds)]) - 48)

RECURSIVE StripZeros(_)
StripZeros(ds) == IF Len(ds) > 1 /\ Head(ds) = "0" THEN StripZeros(Tail(ds)) ELSE ds

\* The decimal reading of a literal that _NUM_RE matched: all mantissa digits and
\* the place of the decimal point among them after the exponent is applied.
\* The value is computed exactly; float(lit) agrees with it for the literals of
\* up to 15 significant digits that the model's formulas hold.
LitParts(lit) ==
  LET u == LStripSign(lit)
      epos == IF \E i \in 1..Len(u) : u[i] \in {"e", "E"}
                THEN CHOOSE i \in 1..Len(u) : u[i] \in {"e", "E"}
                ELSE Len(u) + 1
      mant == SubSeq(u, 1, epos - 1)
      ex == SubSeq(u, epos + 1, Len(u))
      exneg == ex # <<>> /\ Head(ex) = "-"
      exval == ToNat(LStripSign(ex))
      dot == FindChar(mant, ".")
      ip == IF dot = 0 THEN mant ELSE SubSeq(mant, 1, dot - 1)
      fp == IF dot = 0 THEN <<>> ELSE SubSeq(mant, dot + 1, Len(mant))
  IN  [digits |-> ip \o fp, point |-> Len(ip) + (IF exneg THEN 0 - exval ELSE exval)]

\* abs(val).is_integer()
LitIsInteger(lit) ==
  LET p == LitParts(lit)
  IN  \A i \in 1..Len(p.digits) : i > p.point => p.digits[i] = "0"

\* str(int(abs(val))), for a literal whose value is an integer
LitIntText(lit) ==
  LET p == LitParts(lit)
      whole == [i \in 1..Max(p.point, 0) |-> IF i <= Len(p.digits) THEN p.digits[i] ELSE "0"]
  IN  IF whole = <<>> THEN <<"0">> ELSE StripZeros(whole)

\* set(str(x) for x in (cfg.get(key) or []))
CfgSet(opt) == Range(Get(opt, <<>>))
CfgUpperSet(opt) == {Upper(x) : x \in CfgSet(opt)}

\* risky_operators taken as configured, without the fallback (what C10 must tell
\* apart)
risky_operators_as_given(cfg) == CfgSet(cfg.risky_operators)

\* constants.py 144-146: missing or empty risky_operators falls back to {"*", "/"}
risky_operators_of(cfg) ==
  IF CfgSet(cfg.risky_operators) = {} THEN {"*", "/"} ELSE CfgSet(cfg.risky_operators)

\* the body of the loop over matches (constants.py 157-199): the hit, or <<>>
HitOf(s, m, cfg) ==
  LET lit == SubSeq(s, m.start, m.end - 1)
      ignore_literals == CfgSet(cfg.ignore_literals)
      op == nearest_operator(s, m.start)
      func == enclosing_function(s, m.start)
      should_flag ==
        \/ op # "" /\ op \in risky_operators_of(cfg)
        \/ func # <<>> /\ func \in CfgUpperSet(cfg.risky_functions)
  IN  IF looks_like_cell_ref_near(s, m.start, m.end) THEN <<>>
      ELSE IF lit \in ignore_literals \/ LStripSign(lit) \in ignore_literals THEN <<>>
      ELSE IF LitIsInteger(lit) /\ LitIntText(lit) \in ignore_literals THEN <<>>
      ELSE IF func # <<>> /\ func \in CfgUpperSet(cfg.ignore_functions) THEN <<>>
      ELSE IF ~should_flag THEN <<>>
      ELSE <<[literal |-> lit, operator |-> op, function |-> func,
              start |-> m.start - 1, end |-> m.end - 1]>>

RECURSIVE HitsOf(_, _, _)
HitsOf(s, ms, cfg) ==
  IF ms = <<>> THEN <<>> ELSE HitOf(s, Head(ms), cfg) \o HitsOf(s, Tail(ms), cfg)

\* detect_hardcoded_constants(formula, cfg=cfg): the hits in match order, with the
\* 0-based start and exclusive end of Python
detect_hardcoded_constants(formula, cfg) ==
  LET s == strip_quoted_segments(formula)
  IN  IF formula = <<>> THEN <<>> ELSE HitsOf(s, NumMatches(s, 1), cfg)

(***************************************************************************)
(* detectors/drift.py                                                      *)
(***************************************************************************)
UpperLetters == {AsciiChars[i] : i \in 34..59}
LowerLetters == {AsciiChars[i] : i \in 66..91}
\* [A-Za-z0-9_]
WordChars == UpperLetters \cup LowerLetters \cup Digits \cup {"_"}

\* the index just after the longest run of characters of cls that starts at p
RECURSIVE RunEnd(_, _, _)
RunEnd(s, p, cls) == IF CharAt(s, p) \in cls THEN RunEnd(s, p + 1, cls) ELSE p

\* \$?[A-Z]{1,3}\$?\d+ matched at index p: the index just after the match, 0 when
\* it does not match
CellCoreEnd(s, p) ==
  LET a == IF CharAt(s, p) = "$" THEN p + 1 ELSE p
      b == RunEnd(s, a, UpperLetters)
      c == IF CharAt(s, b) = "$" THEN b + 1 ELSE b
      d == RunEnd(s, c, Digits)
  IN  IF (b - a) \in 1..3 /\ d > c THEN d ELSE 0

\* the cell or range part of _CELL_REF_RE at index p: a cell, then ":" and a
\* second cell when one follows
CellOrRangeEnd(s, p) ==
  LET e == CellCoreEnd(s, p)
  IN  IF e = 0 THEN 0
      ELSE IF CharAt(s, e) = ":" /\ CellCoreEnd(s, e + 1) # 0 THEN CellCoreEnd(s, e + 1)
      ELSE e

\* the optional sheet prefix of _CELL_REF_RE at index p, ('[^']+'|[A-Za-z0-9_]+)! :
\* the index just after the "!", 0 when there is no prefix
SheetPrefixEnd(s, p) ==
  LET w == RunEnd(s, p, WordChars)
      q == IF \E i \in (p + 1)..Len(s) : s[i] = "'"
             THEN CHOOSE i \in (p + 1)..Len(s) :
                    s[i] = "'" /\ \A j \in (p + 1)..(i - 1) : s[j] # "'"
             ELSE 0
  IN  IF CharAt(s, p) = "'" /\ q > p + 1 /\ CharAt(s, q + 1) = "!" THEN q + 2
      ELSE IF w > p /\ CharAt(s, w) = "!" THEN w + 1
      ELSE 0

\* _CELL_REF_RE matched at index p: with the sheet prefix when the reference
\* follows it, otherwise without
CellRefEnd(s, p) ==
  LET x == SheetPrefixEnd(s, p)
  IN  IF x # 0 /\ CellOrRangeEnd(s, x) # 0 THEN CellOrRangeEnd(s, x)
      ELSE CellOrRangeEnd(s, p)

\* _CELL_REF_RE.sub("CELL", f), from index p on
RECURSIVE SubCellRefs(_, _)
SubCellRefs(s, p) ==
  IF p > Len(s) THEN <<>>
  ELSE IF CellRefEnd(s, p) # 0
    THEN <<"C", "E", "L", "L">> \o SubCellRefs(s, CellRefEnd(s, p))
  ELSE <<s[p]>> \o SubCellRefs(s, p + 1)

\* drift.py's _NUM_RE matched at index p:
\* (?<![A-Za-z_]) [-+]? \d+ (\.\d+)? ([eE][-+]?\d+)?
ShapeNumEnd(s, p) ==
  LET q == IF CharAt(s, p) \in {"+", "-"} THEN p + 1 ELSE p
      d == RunEnd(s, q, Digits)
      f == IF CharAt(s, d) = "." /\ RunEnd(s, d + 1, Digits) > d + 1
             THEN RunEnd(s, d + 1, Digits) ELSE d
      r == IF CharAt(s, f + 1) \in {"+", "-"} THEN f + 2 ELSE f + 1
  IN  IF CharAt(s, p - 1) \in UpperLetters \cup LowerLetters \cup {"_"} THEN 0
      ELSE IF d = q THEN 0
      ELSE IF CharAt(s, f) \in {"e", "E"} /\ RunEnd(s, r, Digits) > r
        THEN RunEnd(s, r, Digits)
      ELSE f

\* _NUM_RE.sub("NUM", f), from index p on
RECURSIVE SubNums(_, _)
SubNums(s, p) ==
  IF p > Len(s) THEN <<>>
  ELSE IF ShapeNumEnd(s, p) # 0
    THEN <<"N", "U", "M">> \o SubNums(s, ShapeNumEnd(s, p))
  ELSE <<s[p]>> \o SubNums(s, p + 1)

\* _WS_RE.sub("", f)
RemoveSpaces(s) == LET NotSpace(c) == ~IsSpace(c) IN SelectSeq(s, NotSpace)

\* normalize_formula(formula) for a formula text: its shape, "" for a text that
\* is not a formula
normalize_formula(formula) ==
  LET f == Strip(formula)
  IN  IF f = <<>> \/ Head(f) # "=" THEN <<>>
      ELSE Upper(RemoveSpaces(SubNums(SubCellRefs(f, 1), 1)))

\* drift.py:53  cfg.get("min_row_formula_count", 6) or 6
DEFAULT_MIN_GROUP == 6
\* drift.py:54  cfg.get("dominant_ratio", 0.60) or 0.60, in hundredths
DEFAULT_DOMINANT_RATIO == 60
\* drift.py:55  cfg.get("max_findings", 50) or 50
DEFAULT_DRIFT_MAX_FINDINGS == 50

\* re.match(r"^[A-Z]{1,3}(\d+)$", addr): Some(row number), Absent without a match
DriftRow(addr) ==
  LET b == RunEnd(addr, 1, UpperLetters)
      d == RunEnd(addr, b, Digits)
  IN  IF (b - 1) \in 1..3 /\ d > b /\ d = Len(addr) + 1
        THEN Some(ToNat(SubSeq(addr, b, Len(addr))))
        ELSE Absent

\* the (addr, formula, shape) items one sheet's loop collects (drift.py 63-72),
\* each with the row it is filed under
RECURSIVE DriftItems(_)
DriftItems(cells) ==
  IF cells = <<>> THEN <<>>
  ELSE LET addr == Head(cells)[1]
           formula == Head(cells)[2]
           shape == normalize_formula(formula)
       IN  (IF DriftRow(addr) = Absent \/ shape = <<>> THEN <<>>
            ELSE <<[addr |-> addr, formula |-> formula, shape |-> shape,
                    row |-> DriftRow(addr)[1]]>>)
           \o DriftItems(Tail(cells))

\* rows.items(): the row numbers in the order their first item was filed
RECURSIVE RowOrder(_)
RowOrder(items) ==
  IF items = <<>> THEN <<>>
  ELSE LET before == RowOrder(SubSeq(items, 1, Len(items) - 1))
           r == items[Len(items)].row
       IN  IF r \in Range(before) THEN before ELSE Append(before, r)

\* Counter(shapes)[x]
ShapeCount(items, x) == Cardinality({i \in 1..Len(items) : items[i].shape = x})

\* counts.most_common(1)[0][0]: the shape counted most often, the one met first
\* among equals
DominantShape(items) ==
  LET Most(i) == \A j \in 1..Len(items) :
                    ShapeCount(items, items[j].shape) <= ShapeCount(items, items[i].shape)
      i == CHOOSE k \in 1..Len(items) : Most(k) /\ \A j \in 1..(k - 1) : ~Most(j)
  IN  items[i].shape

\* a size test that also drops the rows of exactly min_group items (what C12 must
\* tell apart)
RowTooSmallInclusive(items, min_group) == Len(items) <= min_group

\* drift.py:75  len(items) < min_group
RowTooSmall(items, min_group) == Len(items) < min_group

\* the drift candidates of one row in item order (drift.py 75-100), before the cap
RowFindings(sheet, r, items, min_group, dominant_ratio) ==
  LET dominant_shape == DominantShape(items)
      dom_count == ShapeCount(items, dominant_shape)
      Drifted(it) == it.shape # dominant_shape
      cand == SelectSeq(items, Drifted)
  IN  IF RowTooSmall(items, min_group) THEN <<>>
      ELSE IF dom_count * 100 < dominant_ratio * Max(1, Len(items)) THEN <<>>
      ELSE [i \in 1..Len(cand) |->
              [sheet |-> sheet, cell |-> cand[i].addr, formula |-> cand[i].formula,
               dominant_shape |-> dominant_shape, cell_shape |-> cand[i].shape,
               row |-> r, drift_scope |-> "row"]]

\* the candidates of one sheet, row after row
RECURSIVE RowsFindings(_, _, _, _, _)
RowsFindings(sheet, rows, items, min_group, dominant_ratio) ==
  IF rows = <<>> THEN <<>>
  ELSE LET InRow(it) == it.row = Head(rows)
       IN  RowFindings(sheet, Head(rows), SelectSeq(items, InRow), min_group, dominant_ratio)
             \o RowsFindings(sheet, Tail(rows), items, min_group, dominant_ratio)

\* the candidates of every sheet, sheet after sheet
RECURSIVE SheetsFindings(_, _, _)
SheetsFindings(by_sheet, min_group, dominant_ratio) ==
  IF by_sheet = <<>> THEN <<>>
  ELSE LET items == DriftItems(Head(by_sheet).cells)
       IN  RowsFindings(Head(by_sheet).sheet, RowOrder(items), items, min_group,
                        dominant_ratio)
             \o SheetsFindings(Tail(by_sheet), min_group, dominant_ratio)

\* a cap that lets one finding too many through (what C13 must tell apart)
CapReachedLate(findings, max_findings) == Len(findings) > max_findings

\* drift.py:101  len(findings) >= max_findings
CapReached(findings, max_findings) == Len(findings) >= max_findings

\* findings.append(...) candidate after candidate, returning as soon as the cap
\* is reached (drift.py 89-102)
RECURSIVE AppendUntilCap(_, _, _)
AppendUntilCap(findings, cand, max_findings) ==
  IF cand = <<>> THEN findings
  ELSE LET more == Append(findings, Head(cand))
       IN  IF CapReached(more, max_findings) THEN more
           ELSE AppendUntilCap(more, Tail(cand), max_findings)

\* detect_formula_drift(formula_cells_by_sheet, cfg): formula_cells_by_sheet is the
\* dict as the sequence of its items, [sheet, cells], cells the (addr, formula) pairs
detect_formula_drift(formula_cells_by_sheet, cfg) ==
  LET min_group == NumOr(cfg.min_row_formula_count, DEFAULT_MIN_GROUP)
      dominant_ratio == NumOr(cfg.dominant_ratio, DEFAULT_DOMINANT_RATIO)
      max_findings == NumOr(cfg.max_findings, DEFAULT_DRIFT_MAX_FINDINGS)
  IN  IF ~Get(cfg.enabled, TRUE) THEN <<>>
      ELSE AppendUntilCap(<<>>, SheetsFindings(formula_cells_by_sheet, min_group,
                                               dominant_ratio),
                          max_findings)

(***************************************************************************)
(* core/references.py: extract_reference_tokens                            *)
(***************************************************************************)
\* [A-Za-z_] and [A-Za-z0-9_\.]
NameStartChars == UpperLetters \cup LowerLetters \cup {"_"}
NameChars == WordChars \cup {"."}

\* references.py:23-26
VOLATILE_FUNCS ==
  {<<"N", "O", "W">>, <<"T", "O", "D", "A", "Y">>, <<"R", "A", "N", "D">>,
   <<"R", "A", "N", "D", "B", "E", "T", "W", "E", "E", "N">>,
   <<"O", "F", "F", "S", "E", "T">>, <<"I", "N", "D", "I", "R", "E", "C", "T">>,
   <<"C", "E", "L", "L">>, <<"I", "N", "F", "O">>}

\* references.py:140  the names the named-range step passes over
RESERVED_NAMES ==
  {<<"T", "R", "U", "E">>, <<"F", "A", "L", "S", "E">>, <<"N", "A">>, <<"N">>,
   <<"P", "I">>, <<"E">>}

\* the index just after the longest run of characters outside excl that starts at p
RECURSIVE RunEndNot(_, _, _)
RunEndNot(s, p, excl) ==
  IF p <= Len(s) /\ s[p] \notin excl THEN RunEndNot(s, p + 1, excl) ELSE p

\* the same as RunEnd, for a run of at most n characters ({1,n} taken greedily)
RunEndUpTo(s, p, cls, n) == Min(RunEnd(s, p, cls), p + n)

\* \b at index p: exactly one of s[p-1], s[p] is a word character
WordBoundary(s, p) == (CharAt(s, p - 1) \in WordChars) # (CharAt(s, p) \in WordChars)

\* _CELL = \$?[A-Z]{1,3}\$?\d{1,7} matched at index p: the index just after the
\* match, 0 when it does not match
TokCellEnd(s, p) ==
  LET a == IF CharAt(s, p) = "$" THEN p + 1 ELSE p
      b == RunEnd(s, a, UpperLetters)
      c == IF CharAt(s, b) = "$" THEN b + 1 ELSE b
      d == RunEndUpTo(s, c, Digits, 7)
  IN  IF (b - a) \in 1..3 /\ d > c THEN d ELSE 0

\* _RANGE = _CELL:_CELL
TokRangeEnd(s, p) ==
  LET e == TokCellEnd(s, p)
  IN  IF e # 0 /\ CharAt(s, e) = ":" THEN TokCellEnd(s, e + 1) ELSE 0

\* _WHOLE_COL = \$?[A-Z]{1,3}:\$?[A-Z]{1,3}
TokWholeColEnd(s, p) ==
  LET a == IF CharAt(s, p) = "$" THEN p + 1 ELSE p
      b == RunEnd(s, a, UpperLetters)
      c == IF CharAt(s, b + 1) = "$" THEN b + 2 ELSE b + 1
      d == RunEndUpTo(s, c, UpperLetters, 3)
  IN  IF (b - a) \in 1..3 /\ CharAt(s, b) = ":" /\ d > c THEN d ELSE 0

\* _WHOLE_ROW = \$?\d{1,7}:\$?\d{1,7}
TokWholeRowEnd(s, p) ==
  LET a == IF CharAt(s, p) = "$" THEN p + 1 ELSE p
      b == RunEndUpTo(s, a, Digits, 7)
      c == IF CharAt(s, b + 1) = "$" THEN b + 2 ELSE b + 1
      d == RunEndUpTo(s, c, Digits, 7)
  IN  IF b > a /\ CharAt(s, b) = ":" /\ d > c THEN d ELSE 0

\* (?P<addr>_RANGE|_CELL|_WHOLE_COL|_WHOLE_ROW) matched at index p: the first
\* alternative that matches decides
AddrEnd(s, p) ==
  IF TokRangeEnd(s, p) # 0 THEN TokRangeEnd(s, p)
  ELSE IF TokCellEnd(s, p) # 0 THEN TokCellEnd(s, p)
  ELSE IF TokWholeColEnd(s, p) # 0 THEN TokWholeColEnd(s, p)
  ELSE TokWholeRowEnd(s, p)

\* _kind_from_addr(addr): re.fullmatch against each pattern in turn
kind_from_addr(addr) ==
  IF TokCellEnd(addr, 1) = Len(addr) + 1 THEN "cell"
  ELSE IF TokRangeEnd(addr, 1) = Len(addr) + 1 THEN "range"
  ELSE IF TokWholeColEnd(addr, 1) = Len(addr) + 1 THEN "whole_column"
  ELSE IF TokWholeRowEnd(addr, 1) = Len(addr) + 1 THEN "whole_row"
  ELSE "symbolic"

\* RefToken(raw, sheet, kind, symbolic).to_dict()
RefToken(raw, sheet, kind, symbolic) ==
  [raw |-> raw, sheet |-> sheet, kind |-> kind, symbolic |-> symbolic]

\* _RE_STRUCTURED matched at index p: \b, a name [A-Za-z_][A-Za-z0-9_]*, "[",
\* one or more characters other than "]", "]", \b.  The index just after the
\* match, 0 when it does not match
StructuredEnd(s, p) ==
  LET w == RunEnd(s, p, WordChars)
      r == RunEndNot(s, w + 1, {"]"})
  IN  IF /\ CharAt(s, p) \in NameStartChars
         /\ WordBoundary(s, p)
         /\ CharAt(s, w) = "["
         /\ r > w + 1
         /\ CharAt(s, r) = "]"
         /\ WordBoundary(s, r + 1)
      THEN r + 1
      ELSE 0

\* 1) the tokens of the structured references found from index p on
RECURSIVE StructuredTokensFrom(_, _)
StructuredTokensFrom(s, p) ==
  IF p > Len(s) THEN <<>>
  ELSE LET e == StructuredEnd(s, p)
       IN  IF e # 0
           THEN <<RefToken(SubSeq(s, p, e - 1), None, "symbolic", TRUE)>>
                  \o StructuredTokensFrom(s, e)
           ELSE StructuredTokensFrom(s, p + 1)

\* _SHEET_PREFIX matched at index p: the quoted alternative first, then the
\* unquoted one, which runs up to the next "'" or "!" and needs the "!".  The
\* index of the "!" that ends the prefix, 0 when neither alternative leads to
\* an address
SheetBang(s, p) ==
  LET q == RunEndNot(s, p + 1, {"'"})
      w == RunEndNot(s, p, {"'", "!"})
  IN  IF CharAt(s, p) = "'"
      THEN IF q > p + 1 /\ CharAt(s, q) = "'" /\ CharAt(s, q + 1) = "!"
                /\ AddrEnd(s, q + 2) # 0
           THEN q + 1 ELSE 0
      ELSE IF w > p /\ CharAt(s, w) = "!" /\ AddrEnd(s, w + 1) # 0
           THEN w ELSE 0

\* m.group("qs") or m.group("us") of the prefix at p that ends with the "!" at b
SheetOfPrefix(s, p, b) ==
  IF CharAt(s, p) = "'" THEN SubSeq(s, p + 1, b - 2) ELSE SubSeq(s, p, b - 1)

\* 2) the tokens of the sheet-qualified addresses found from index p on
RECURSIVE SheetTokensFrom(_, _)
SheetTokensFrom(s, p) ==
  IF p > Len(s) THEN <<>>
  ELSE LET b == SheetBang(s, p)
           e == AddrEnd(s, b + 1)
           addr == SubSeq(s, b + 1, e - 1)
       IN  IF b # 0
           THEN <<RefToken(addr, SheetOfPrefix(s, p, b), kind_from_addr(addr), FALSE)>>
                  \o SheetTokensFrom(s, e)
           ELSE SheetTokensFrom(s, p + 1)

\* 3) the tokens of the bare addresses found from index p on
RECURSIVE BareTokensFrom(_, _)
BareTokensFrom(s, p) ==
  IF p > Len(s) THEN <<>>
  ELSE LET e == AddrEnd(s, p)
           addr == SubSeq(s, p, e - 1)
       IN  IF e # 0
           THEN <<RefToken(addr, None, kind_from_addr(addr), FALSE)>>
                  \o BareTokensFrom(s, e)
           ELSE BareTokensFrom(s, p + 1)

\* the end of the longest prefix of s[p..e-1] that ends with a word character
\* (the trailing \b of _RE_NAME gives up the dots at the end of the run)
RECURSIVE DropTrailingDots(_, _, _)
DropTrailingDots(s, p, e) ==
  IF e > p + 1 /\ s[e - 1] \notin WordChars THEN DropTrailingDots(s, p, e - 1) ELSE e

\* _RE_NAME matched at index p: \b, [A-Za-z_], up to 255 of [A-Za-z0-9_\.], \b
NameEnd(s, p) ==
  IF CharAt(s, p) \in NameStartChars /\ WordBoundary(s, p)
  THEN DropTrailingDots(s, p, RunEndUpTo(s, p + 1, NameChars, 255))
  ELSE 0

\* the tests under which step 4 passes over the name that ends just before e
NameSkipped(s, name, e) ==
  \/ CharAt(s, e) = "("
  \/ TokCellEnd(name, 1) = Len(name) + 1
  \/ TokWholeColEnd(name, 1) = Len(name) + 1
  \/ TokWholeRowEnd(name, 1) = Len(name) + 1
  \/ Upper(name) \in RESERVED_NAMES
  \/ Upper(name) \in VOLATILE_FUNCS

\* 4) the tokens of the names found from index p on
RECURSIVE NameTokensFrom(_, _)
NameTokensFrom(s, p) ==
  IF p > Len(s) THEN <<>>
  ELSE LET e == NameEnd(s, p)
           name == SubSeq(s, p, e - 1)
       IN  IF e = 0 THEN NameTokensFrom(s, p + 1)
           ELSE IF NameSkipped(s, name, e) THEN NameTokensFrom(s, e)
           ELSE <<RefToken(name, None, "symbolic", TRUE)>> \o NameTokensFrom(s, e)

\* the text the four steps read: the formula without its leading "="
FormulaBody(formula) ==
  IF Len(formula) > 0 /\ formula[1] = "=" THEN Tail(formula) ELSE formula

\* a de-duplication in which the last occurrence wins
RECURSIVE DedupTokensLastWins(_, _)
DedupTokensLastWins(tokens, out) ==
  IF tokens = <<>> THEN out
  ELSE LET Other(t) == t # Head(tokens)
       IN  DedupTokensLastWins(Tail(tokens), Append(SelectSeq(out, Other), Head(tokens)))

\* the de-duplication loop: a token whose (raw, sheet, kind, symbolic) was seen
\* is passed over, the others are appended in order
RECURSIVE DedupTokens(_, _)
DedupTokens(tokens, out) ==
  IF tokens = <<>> THEN out
  ELSE DedupTokens(Tail(tokens),
                   IF Head(tokens) \in Range(out) THEN out ELSE Append(out, Head(tokens)))

\* the tokens of the four steps, in the order the function appends them
AllTokens(formula) ==
  LET f == FormulaBody(formula)
  IN  StructuredTokensFrom(f, 1) \o SheetTokensFrom(f, 1)
        \o BareTokensFrom(f, 1) \o NameTokensFrom(f, 1)

extract_reference_tokens(formula) ==
  IF formula = <<>> THEN <<>> ELSE DedupTokens(AllTokens(formula), <<>>)

(***************************************************************************)
(* The workbook handed to scan_workbook, as the workbook reader supplies   *)
(* it: per sheet its title, its formula cells in iteration order and its   *)
(* dimensions; per formula cell its address and what the three per-formula *)
(* functions return for its text: the reference tokens                     *)
(* (extract_reference_tokens), the number of volatile hits and the number  *)
(* of constant hits.  fails names the per-cell steps that raise for the    *)
(* cell ("volatile", "tokens", "constants", "graph"); a sheet's fails_at   *)
(* is the index of the cell at which iterating the sheet raises, 0 when it *)
(* does not.                                                               *)
(***************************************************************************)
BareRef(addr) == [raw |-> addr, sheet |-> None, kind |-> "cell", symbolic |-> FALSE]
NameRef(name) == [raw |-> name, sheet |-> None, kind |-> "symbolic", symbolic |-> TRUE]

Cell(addr, tokens) ==
  [addr |-> addr, tokens |-> tokens, v_hits |-> 0, hits |-> 0, fails |-> {}]

\* a formula cell with volatile hits, constant hits and failing steps
CellWith(addr, tokens, v_hits, hits, fails) ==
  [addr |-> addr, tokens |-> tokens, v_hits |-> v_hits, hits |-> hits, fails |-> fails]

\* the address of column letter col and row number row ("A", 12 -> A12)
Addr(col, row) == <<col>> \o DecStr(row)

A1 == Addr("A", 1)
B1 == Addr("B", 1)
C1 == Addr("C", 1)
D1 == Addr("D", 1)
SheetS == <<"S">>
SheetT == <<"T">>

\* the sequences of at most n elements of set S
RECURSIVE SeqsUpTo(_, _)
SeqsUpTo(S, n) ==
  IF n = 0 THEN {<<>>}
  ELSE LET shorter == SeqsUpTo(S, n - 1)
       IN  shorter \cup {Append(q, x) : q \in shorter, x \in S}

\* the token lists of a formula that names up to n distinct cells of addrs
BareTokenLists(addrs, n) ==
  LET NoRepeat(q) == \A i, j \in 1..Len(q) : i # j => q[i] # q[j]
  IN  {[i \in 1..Len(q) |-> BareRef(q[i])] : q \in {r \in SeqsUpTo(addrs, n) : NoRepeat(r)}}

\* the same, then possibly one defined name (the tokenizer lists bare addresses
\* before names)
TokenLists(addrs) ==
  BareTokenLists(addrs, MaxRefs)
    \cup {Append(b, NameRef(<<"R", "a", "t", "e">>)) : b \in BareTokenLists(addrs, MaxRefs)}

\* the tokens of "=<sheet>!<addr>": the sheet-qualified token, from the bare
\* step over the same text the unqualified one, and from the name step the
\* sheet name
QualTokens(sheet, addr) == extract_reference_tokens(<<"=">> \o sheet \o <<"!">> \o addr)

\* a sheet whose last populated row is max_row and last populated column max_column
Sheet(title, cells, max_row, max_column) ==
  [title |-> title, cells |-> cells, max_row |-> max_row, max_column |-> max_column,
   fails_at |-> 0]

(***************************************************************************)
(* Configuration (rules.yaml), every value optional.                       *)
(***************************************************************************)
DefaultScope ==
  [thresholds |-> Absent, weights |-> Absent,
   symbolic_counts_as_medium |-> Absent, top_risk_counts_as_medium |-> Absent,
   volatile_counts_as_medium |-> Absent, constants_counts_as_medium |-> Absent,
   orphans_counts_as_medium |-> Absent, cycles_make_high |-> Absent]

DefaultScoring ==
  [overrides |-> [cycle_always_high |-> Absent],
   sheet |-> DefaultScope, workbook |-> DefaultScope]

DefaultOrphanCfg ==
  [enabled |-> Absent, exclude_sheets |-> Absent, exclude_named_ranges |-> Absent,
   exclude_last_row_or_col |-> Absent, max_findings |-> Absent]

DefaultCfg ==
  [risk_scoring |-> DefaultScoring, orphan_calculations |-> DefaultOrphanCfg,
   trial |-> [enabled_default |-> Absent, formula_limit |-> Absent],
   hardcoded_constants |-> [enabled |-> Absent, max_findings |-> Absent]]

\* main.py:358  orphan_cfg.get("max_findings", 100) or 100
DEFAULT_MAX_FINDINGS == 100

\* main.py:245  const_cfg.get("max_findings", 100) or 100
DEFAULT_CONST_MAX_FINDINGS == 100

\* main.py:100  trial_cfg.get("formula_limit", 100) or 100
DEFAULT_FORMULA_LIMIT == 100

\* _trial_settings(cfg, trial_flag) (main.py 92-103)
trial_settings(c, trial_flag) ==
  [enabled |-> trial_flag \/ Get(c.trial.enabled_default, FALSE),
   formula_limit |-> Max(1, NumOr(c.trial.formula_limit, DEFAULT_FORMULA_LIMIT))]

(***************************************************************************)
(* State.                                                                  *)
(***************************************************************************)
VARIABLES
  wb,                       \* the workbook being scanned (input)
  top_n,                    \* scan_workbook's top_n argument
  trial,                    \* scan_workbook's trial argument
  cfg,                      \* the loaded configuration
  pc,                       \* where the run stands
  si, ci,                   \* the sheet and the cell the scan loop is at
  g,                        \* the dependency graph (nx.DiGraph)
  formula_nodes,            \* node ids of the scanned formula cells, in scan order
  symbolic_edges,           \* the symbolic-edge side table
  counters,                 \* volatile_hits, symbolic_refs, hardcoded_constants_hits,
                            \* formula_scanned
  per_sheet_formula_counts, \* sheet title -> formulas scanned
  per_sheet_signals,        \* sheet title -> volatile/symbolic/constants/orphans
  formula_cells_by_sheet,   \* sheet title -> addresses of the formulas kept for the
                            \* drift detector
  hardcoded_constants_findings, \* the capped list of constant findings
  truncated,                \* the trial limit stopped the scan
  errors,                   \* the error log
  limit,                    \* detect_cycles' limit argument
  cycles,                   \* detect_cycles' out list
  top_risks,                \* rank_high_risk_cells' result
  orphan_hits,              \* number of orphan formulas found
  orphan_findings,          \* the capped list of orphan findings
  sheets_out,               \* per-sheet result blocks
  workbook_risk,            \* <<tier, reason>> of the workbook
  args, ret                 \* arguments and result of a function called on its own

inputVars == <<wb, top_n, trial, cfg, limit>>
loopVars == <<si, ci>>
graphVars == <<g, formula_nodes, symbolic_edges>>
countVars == <<counters, per_sheet_formula_counts, per_sheet_signals, formula_cells_by_sheet,
               hardcoded_constants_findings, truncated, errors>>
orphanVars == <<orphan_hits, orphan_findings>>
tierVars == <<sheets_out, workbook_risk>>
callVars == <<args, ret>>
vars == <<inputVars, pc, loopVars, graphVars, countVars, cycles, top_risks, orphanVars,
          tierVars, callVars>>

ZeroSignals == [volatile |-> 0, symbolic |-> 0, constants |-> 0, orphans |-> 0]

\* the state scan_workbook sets up before its loop (main.py 146-164)
ScanStart ==
  /\ si = 1 /\ ci = 1
  /\ g = EmptyGraph
  /\ formula_nodes = <<>>
  /\ symbolic_edges = <<>>
  /\ counters = [volatile_hits |-> 0, symbolic_refs |-> 0, hardcoded_constants_hits |-> 0,
                 formula_scanned |-> 0]
  /\ per_sheet_formula_counts = <<>>
  /\ per_sheet_signals = <<>>
  /\ formula_cells_by_sheet = <<>>
  /\ hardcoded_constants_findings = <<>>
  /\ truncated = FALSE
  /\ errors = <<>>
  /\ cycles = <<>>
  /\ top_risks = <<>>
  /\ orphan_hits = 0
  /\ orphan_findings = <<>>
  /\ sheets_out = <<>>
  /\ workbook_risk = <<>>

NoCall == args = [fn |-> "none"] /\ ret = <<>>

\* a dict: d[k] = v
DictPut(d, k, v) == [x \in DOMAIN d \cup {k} |-> IF x = k THEN v ELSE d[x]]

(***************************************************************************)
(* scan_workbook: the scan loop (main.py 166-297).                         *)
(***************************************************************************)
\* for ws in wb.worksheets: the per-sheet dictionaries are initialised (166-170)
StartSheet ==
  /\ pc = "sheet"
  /\ si <= Len(wb.sheets)
  /\ per_sheet_formula_counts' = DictPut(per_sheet_formula_counts, wb.sheets[si].title, 0)
  /\ per_sheet_signals' = DictPut(per_sheet_signals, wb.sheets[si].title, ZeroSignals)
  /\ formula_cells_by_sheet' = DictPut(formula_cells_by_sheet, wb.sheets[si].title, <<>>)
  /\ ci' = 1
  /\ pc' = "cell"
  /\ UNCHANGED <<inputVars, si, graphVars, counters, hardcoded_constants_findings, truncated,
                 errors, cycles, top_risks, orphanVars, tierVars, callVars>>

\* number of symbolic tokens of a token list (main.py 229-232)
SymbolicCount(tokens) == Cardinality({i \in 1..Len(tokens) : tokens[i].symbolic})

\* one entry of the error log (details, the repr of the exception, left out)
ErrorEntry(scope, type, dependent) ==
  [scope |-> scope, type |-> type, dependent |-> dependent, ref |-> ""]

\* the entries the except blocks of one cell append, in the order of the steps
\* (main.py 200-283)
CellErrors(fails, dep) ==
  (IF "volatile" \in fails
     THEN <<ErrorEntry("parse_formula", "volatile_detect_failed", dep)>> ELSE <<>>)
    \o (IF "tokens" \in fails
          THEN <<ErrorEntry("parse_formula", "extract_reference_tokens_failed", dep)>>
          ELSE <<>>)
    \o (IF "constants" \in fails
          THEN <<ErrorEntry("parse_formula", "hardcoded_constants_detect_failed", dep)>>
          ELSE <<>>)
    \o (IF "graph" \in fails
          THEN <<ErrorEntry("graph_build", "build_dependency_graph_failed", dep)>>
          ELSE <<>>)

\* the loop that keeps the hits of one cell for the report (main.py 244-252):
\* hit k of n is appended unless the list has max_findings entries
RECURSIVE KeepConstantFindings(_, _, _, _, _, _)
KeepConstantFindings(findings, sheet, addr, k, n, max_findings) ==
  IF k > n \/ max_findings <= 0 \/ Len(findings) >= max_findings THEN findings
  ELSE KeepConstantFindings(Append(findings, [sheet |-> sheet, cell |-> addr, hit |-> k]),
                            sheet, addr, k + 1, n, max_findings)

\* what build_dependency_graph leaves behind for a cell (main.py 264-283): the
\* graph after the whole call, or, when the call raises, the graph as it was or
\* as it is after the dependent node and some of the tokens were put in
GraphOutcomes(sheet, cell, tokens, gr, sym) ==
  IF "graph" \notin cell.fails
    THEN {[ok |-> TRUE, st |-> build_dependency_graph(sheet, cell.addr, tokens, gr, sym)]}
    ELSE {[ok |-> FALSE, st |-> [g |-> gr, symbolic_edges |-> sym]]}
           \cup {[ok |-> FALSE,
                  st |-> build_dependency_graph(sheet, cell.addr, SubSeq(tokens, 1, k), gr, sym)] :
                   k \in {x \in 0..Len(tokens) : x = 0 \/ x < Len(tokens)}}

\* a gate that lets one formula more through
TrialLimitReachedLate ==
  LET trial_info == trial_settings(cfg, trial)
  IN  trial_info.enabled /\ counters.formula_scanned > trial_info.formula_limit

\* the trial gate of the loop (main.py 177-180)
TrialLimitReached ==
  LET trial_info == trial_settings(cfg, trial)
  IN  trial_info.enabled /\ counters.formula_scanned >= trial_info.formula_limit

\* iterating the current sheet raises at the cell the loop is at
SheetRaises == wb.sheets[si].fails_at = ci

\* one formula cell of the current sheet (main.py 182-283)
ScanCell ==
  /\ pc = "cell"
  /\ ci <= Len(wb.sheets[si].cells)
  /\ ~SheetRaises
  /\ ~TrialLimitReached
  /\ LET sheet == wb.sheets[si].title
         cell == wb.sheets[si].cells[ci]
         dep == node_id(sheet, cell.addr)
         v_hits == IF "volatile" \in cell.fails THEN 0 ELSE cell.v_hits
         tokens == IF "tokens" \in cell.fails THEN <<>> ELSE cell.tokens
         nsym == SymbolicCount(tokens)
         const_cfg == cfg.hardcoded_constants
         hits == IF "constants" \notin cell.fails /\ Get(const_cfg.enabled, TRUE)
                   THEN cell.hits ELSE 0
         max_findings == NumOr(const_cfg.max_findings, DEFAULT_CONST_MAX_FINDINGS)
         raised == IF Get(const_cfg.enabled, TRUE) THEN cell.fails
                   ELSE cell.fails \ {"constants"}
     IN  /\ formula_cells_by_sheet' =
               [formula_cells_by_sheet EXCEPT ![sheet] = Append(@, cell.addr)]
         /\ per_sheet_formula_counts' =
               [per_sheet_formula_counts EXCEPT ![sheet] = @ + 1]
         /\ counters' =
               [counters EXCEPT !.formula_scanned = @ + 1,
                                !.volatile_hits = @ + v_hits,
                                !.symbolic_refs = @ + nsym,
                                !.hardcoded_constants_hits = @ + hits]
         /\ per_sheet_signals' =
               [per_sheet_signals EXCEPT ![sheet].volatile = @ + v_hits,
                                         ![sheet].symbolic = @ + nsym,
                                         ![sheet].constants = @ + hits]
         /\ hardcoded_constants_findings' =
               KeepConstantFindings(hardcoded_constants_findings, sheet, cell.addr, 1, hits,
                                    max_findings)
         /\ errors' = errors \o CellErrors(raised, dep)
         /\ \E out \in GraphOutcomes(sheet, cell, tokens, g, symbolic_edges) :
               /\ g' = out.st.g
               /\ symbolic_edges' = out.st.symbolic_edges
               /\ formula_nodes' = IF out.ok THEN Append(formula_nodes, dep) ELSE formula_nodes
  /\ ci' = ci + 1
  /\ UNCHANGED <<inputVars, pc, si, truncated, cycles, top_risks, orphanVars, tierVars,
                 callVars>>

\* a handler that files the error and gives up the remaining worksheets
SheetFailsEndsScan ==
  /\ pc = "cell"
  /\ SheetRaises
  /\ errors' = Append(errors, ErrorEntry("sheet_scan", "sheet_failed", wb.sheets[si].title))
  /\ si' = Len(wb.sheets) + 1
  /\ pc' = "sheet"
  /\ UNCHANGED <<inputVars, ci, graphVars, counters, per_sheet_formula_counts,
                 per_sheet_signals, formula_cells_by_sheet, hardcoded_constants_findings,
                 truncated, cycles, top_risks, orphanVars, tierVars, callVars>>

\* iterating the sheet raises: the sheet_scan handler files the error and the
\* loop goes on with the next worksheet (main.py 288-297)
SheetFails ==
  /\ pc = "cell"
  /\ SheetRaises
  /\ errors' = Append(errors, ErrorEntry("sheet_scan", "sheet_failed", wb.sheets[si].title))
  /\ si' = si + 1
  /\ pc' = "sheet"
  /\ UNCHANGED <<inputVars, ci, graphVars, counters, per_sheet_formula_counts,
                 per_sheet_signals, formula_cells_by_sheet, hardcoded_constants_findings,
                 truncated, cycles, top_risks, orphanVars, tierVars, callVars>>

\* the trial limit is reached at a formula cell: truncated is set, the cell loop
\* and then the sheet loop are left (main.py 177-180, 285-286) and
\* detect_cycles(g, limit=25) is entered (main.py 301)
Truncate ==
  /\ pc = "cell"
  /\ ci <= Len(wb.sheets[si].cells)
  /\ ~SheetRaises
  /\ TrialLimitReached
  /\ truncated' = TRUE
  /\ cycles' = <<>>
  /\ pc' = "cycles"
  /\ UNCHANGED <<inputVars, loopVars, graphVars, counters, per_sheet_formula_counts,
                 per_sheet_signals, formula_cells_by_sheet, hardcoded_constants_findings,
                 errors, top_risks, orphanVars, tierVars, callVars>>

\* the sheet's cells are exhausted: on to the next worksheet
EndSheet ==
  /\ pc = "cell"
  /\ ci > Len(wb.sheets[si].cells)
  /\ ~SheetRaises
  /\ si' = si + 1
  /\ pc' = "sheet"
  /\ UNCHANGED <<inputVars, ci, graphVars, countVars, cycles, top_risks, orphanVars,
                 tierVars, callVars>>

\* the worksheets are exhausted: detect_cycles(g, limit=25) is entered (main.py 301)
EndScan ==
  /\ pc = "sheet"
  /\ si > Len(wb.sheets)
  /\ cycles' = <<>>
  /\ pc' = "cycles"
  /\ UNCHANGED <<inputVars, loopVars, graphVars, countVars, top_risks, orphanVars,
                 tierVars, callVars>>

(***************************************************************************)
(* detect_cycles (graph.py 165-178): one iteration of its for loop.        *)
(***************************************************************************)
\* the next cycle comes out of nx.simple_cycles(g) and is appended; the loop
\* breaks when len(out) >= limit
DetectCyclesYield ==
  /\ pc = "cycles"
  /\ \E cyc \in NextCycles(g, cycles) :
        /\ cycles' = Append(cycles, [type |-> "cycle", cells |-> cyc])
        /\ pc' = IF Len(cycles') >= limit THEN "cycles_returned" ELSE "cycles"
  /\ UNCHANGED <<inputVars, loopVars, graphVars, countVars, top_risks, orphanVars,
                 tierVars, callVars>>

\* the generator is exhausted: out is returned
DetectCyclesEnd ==
  /\ pc = "cycles"
  /\ NextCycles(g, cycles) = {}
  /\ pc' = "cycles_returned"
  /\ UNCHANGED <<inputVars, loopVars, graphVars, countVars, cycles, top_risks, orphanVars,
                 tierVars, callVars>>

(***************************************************************************)
(* rank_high_risk_cells called by the scan (main.py 307-319).              *)
(***************************************************************************)
RankImpact ==
  /\ pc = "cycles_returned"
  /\ IF \A n \in Range(formula_nodes) : has_node(g, n)
       THEN /\ top_risks' = rank_high_risk_cells(g, formula_nodes, top_n)
            /\ errors' = errors
       ELSE /\ top_risks' = <<>>
            /\ errors' = Append(errors, ErrorEntry("impact", "rank_top_impact_failed", <<>>))
  /\ pc' = "orphans"
  /\ UNCHANGED <<inputVars, loopVars, graphVars, counters, per_sheet_formula_counts,
                 per_sheet_signals, formula_cells_by_sheet, hardcoded_constants_findings,
                 truncated, cycles, orphanVars, tierVars, callVars>>

(***************************************************************************)
(* scan_workbook: orphan calculations (main.py 349-434).                   *)
(***************************************************************************)
\* str.split("!", 1) guarded by "!" in s (main.py 390-393 and _split_cell_ref 440-446)
split_cell_ref(s) ==
  LET k == FindChar(s, "!")
  IN  IF k = 0 THEN <<(<<>>), s>>
      ELSE <<SubSeq(s, 1, k - 1), SubSeq(s, k + 1, Len(s))>>

\* column number of a column-letter text (A -> 1, Z -> 26, AA -> 27)
RECURSIVE ColumnNumber(_)
ColumnNumber(letters) ==
  IF letters = <<>> THEN 0
  ELSE 26 * ColumnNumber(SubSeq(letters, 1, Len(letters) - 1))
         + (Ord(letters[Len(letters)]) - 64)

\* wb[sh][addr] -> Some(<<row, column>>) for a single-cell address of an existing
\* sheet, Absent when the lookup raises
CellAt(w, sh, addr) ==
  LET NotUpper(c) == ~(Ord(c) \in 65..90)
      rest == SelectSeq(addr, NotUpper)
      nl == Len(addr) - Len(rest)
  IN  IF /\ \E i \in 1..Len(w.sheets) : w.sheets[i].title = sh
         /\ nl \in 1..3 /\ rest # <<>>
         /\ SubSeq(addr, nl + 1, Len(addr)) = rest
         /\ \A i \in 1..Len(rest) : IsDigit(rest[i])
         /\ ToNat(rest) > 0
        THEN Some(<<ToNat(rest), ColumnNumber(SubSeq(addr, 1, nl))>>)
        ELSE Absent

\* sheet_max.get(sh, (0, 0)) (main.py 380-386, 401)
SheetMax(w, sh) ==
  IF \E i \in 1..Len(w.sheets) : w.sheets[i].title = sh
    THEN LET i == CHOOSE j \in 1..Len(w.sheets) : w.sheets[j].title = sh
         IN  <<w.sheets[i].max_row, w.sheets[i].max_column>>
    ELSE <<0, 0>>

\* the conditions under which the loop body `continue`s (main.py 394-407)
OrphanSkipped(w, ocfg, node) ==
  LET sp == split_cell_ref(node)
      sh == sp[1]
      addr == sp[2]
      exclude_sheets == IF ocfg.exclude_sheets = Absent THEN {} ELSE Range(ocfg.exclude_sheets[1])
      exclude_named == Get(ocfg.exclude_named_ranges, TRUE)
      exclude_last == Get(ocfg.exclude_last_row_or_col, TRUE)
      mx == SheetMax(w, sh)
      at == CellAt(w, sh, addr)
  IN  \/ sh = <<>> \/ addr = <<>>
      \/ sh \in exclude_sheets
      \/ exclude_named /\ node \in w.named_cells
      \/ /\ exclude_last
         /\ at # Absent
         /\ \/ mx[1] # 0 /\ at[1][1] = mx[1]
            \/ mx[2] # 0 /\ at[1][2] = mx[2]

\* the loop over formula_nodes (main.py 389-424): st = [hits, findings, signals]
RECURSIVE OrphanLoop(_, _, _, _, _, _)
OrphanLoop(st, w, ocfg, gr, fnodes, todo) ==
  IF todo = <<>> THEN st
  ELSE
    LET node == Head(todo)
        sh == split_cell_ref(node)[1]
        max_findings == NumOr(ocfg.max_findings, DEFAULT_MAX_FINDINGS)
        preds == predecessors(gr, node) \cap Range(fnodes)
        sig == IF sh \in DOMAIN st.signals THEN st.signals[sh] ELSE ZeroSignals
        hit ==
          [hits |-> st.hits + 1,
           signals |-> DictPut(st.signals, sh, [sig EXCEPT !.orphans = @ + 1]),
           findings |->
             IF max_findings > 0 /\ Len(st.findings) < max_findings
               THEN Append(st.findings,
                           [type |-> "ORPHAN_FORMULA", sheet |-> sh,
                            cell |-> split_cell_ref(node)[2],
                            reason |-> "formula not referenced by any other formula cell"])
               ELSE st.findings]
    IN  OrphanLoop(IF ~OrphanSkipped(w, ocfg, node) /\ preds = {} THEN hit ELSE st,
                   w, ocfg, gr, fnodes, Tail(todo))

DetectOrphans ==
  /\ pc = "orphans"
  /\ LET ocfg == cfg.orphan_calculations
         st == IF Get(ocfg.enabled, TRUE)
                 THEN OrphanLoop([hits |-> 0, findings |-> <<>>, signals |-> per_sheet_signals],
                                 wb, ocfg, g, formula_nodes, formula_nodes)
                 ELSE [hits |-> 0, findings |-> <<>>, signals |-> per_sheet_signals]
     IN  /\ orphan_hits' = st.hits
         /\ orphan_findings' = st.findings
         /\ per_sheet_signals' = st.signals
  /\ pc' = "tier"
  /\ UNCHANGED <<inputVars, loopVars, graphVars, counters, per_sheet_formula_counts,
                 formula_cells_by_sheet, hardcoded_constants_findings, truncated, errors,
                 cycles, top_risks, tierVars, callVars>>

(***************************************************************************)
(* scan_workbook: per-sheet blocks and the workbook tier (main.py 437-660) *)
(***************************************************************************)
\* per_sheet_formula_counts.keys() in insertion order: the sheets the loop entered
SheetKeys(w, counts) ==
  LET titles == [i \in 1..Len(w.sheets) |-> w.sheets[i].title]
      Entered(t) == t \in DOMAIN counts
  IN  SelectSeq(titles, Entered)

\* circular_cells_by_sheet[sheet] (main.py 449-454)
circular_cells(cycs, sheet) ==
  LET refs == UNION {Range(cycs[i].cells) : i \in 1..Len(cycs)}
  IN  {split_cell_ref(r)[2] : r \in {x \in refs : split_cell_ref(x)[1] = sheet}}

\* top_by_sheet[sheet] (main.py 457-461)
top_by_sheet(risks, sheet) ==
  Cardinality({i \in 1..Len(risks) : split_cell_ref(risks[i].cell)[1] = sheet})

\* one entry of sheets_out (main.py 573-598)
SheetBlock(sheet, count, sig, cycs, risks, scoring) ==
  LET circ_cells == Cardinality(circular_cells(cycs, sheet))
      top_cnt == top_by_sheet(risks, sheet)
      tr == compute_risk_tier("sheet",
                              [volatile |-> Some(sig.volatile), symbolic |-> Some(sig.symbolic),
                               constants |-> Some(sig.constants), orphans |-> Some(sig.orphans)],
                              circ_cells > 0, top_cnt, scoring)
  IN  [sheet |-> sheet, risk |-> tr[1], formulas |-> count, circular_cells |-> circ_cells,
       high_risk_cells |-> top_cnt, reason |-> tr[2]]

\* the workbook's reason_bits joined (main.py 602-614)
WorkbookReasonBits(cycs, risks, cnt, ohits) ==
  Join((IF Len(cycs) > 0
          THEN <<ToString(Len(cycs)) \o " circular reference cycle(s)">> ELSE <<>>)
    \o (IF Len(risks) > 0
          THEN <<ToString(Len(risks)) \o " high-impact cells in Top-N list">> ELSE <<>>)
    \o (IF cnt.volatile_hits > 0
          THEN <<ToString(cnt.volatile_hits) \o " volatile function hit(s)">> ELSE <<>>)
    \o (IF cnt.symbolic_refs > 0
          THEN <<ToString(cnt.symbolic_refs) \o " symbolic reference(s)">> ELSE <<>>)
    \o (IF cnt.hardcoded_constants_hits > 0
          THEN <<ToString(cnt.hardcoded_constants_hits) \o " embedded constant(s)">>
          ELSE <<>>)
    \o (IF ohits > 0 THEN <<ToString(ohits) \o " orphan formula(s)">> ELSE <<>>))

\* workbook tier and reason (main.py 617-630)
WorkbookRisk(cycs, risks, cnt, ohits, scoring) ==
  LET tr == compute_risk_tier("workbook",
                              [volatile |-> Some(cnt.volatile_hits),
                               symbolic |-> Some(cnt.symbolic_refs),
                               constants |-> Some(cnt.hardcoded_constants_hits),
                               orphans |-> Absent],
                              Len(cycs) > 0, Len(risks), scoring)
  IN  [workbook_risk |-> tr[1],
       reason |-> IF tr[2] # "" THEN tr[2] ELSE WorkbookReasonBits(cycs, risks, cnt, ohits)]

ComputeTiers ==
  /\ pc = "tier"
  /\ LET keys == SheetKeys(wb, per_sheet_formula_counts)
     IN  sheets_out' =
           [i \in 1..Len(keys) |->
              SheetBlock(keys[i], per_sheet_formula_counts[keys[i]],
                         per_sheet_signals[keys[i]], cycles, top_risks, cfg.risk_scoring)]
  /\ workbook_risk' = WorkbookRisk(cycles, top_risks, counters, orphan_hits, cfg.risk_scoring)
  /\ pc' = "done"
  /\ UNCHANGED <<inputVars, loopVars, graphVars, countVars, cycles, top_risks, orphanVars,
                 callVars>>

(***************************************************************************)
(* Workbooks and configurations the runs start from.                       *)
(***************************************************************************)
\* number of self-referencing cells of the large workbooks
MaxSelfLoops == 25

\* sheet S with formulas in A1 and B1 and values below and right of them, alone
\* or followed by sheet T with one formula in A1
SmallWorkbooks ==
  LET sheetsS == {Sheet(SheetS, <<Cell(A1, t1), Cell(B1, t2)>>, 2, 3) :
                    t1 \in TokenLists({A1, B1}), t2 \in TokenLists({A1, B1})}
      sheetsT == {Sheet(SheetT, <<Cell(A1, t)>>, 2, 2) :
                    t \in {<<>>, <<BareRef(A1)>>, <<BareRef(B1)>>, QualTokens(SheetS, A1)}}
  IN  {[sheets |-> <<s1>>, named_cells |-> {}] : s1 \in sheetsS}
        \cup {[sheets |-> <<s1, s2>>, named_cells |-> {}] : s1 \in sheetsS, s2 \in sheetsT}

\* sheet S with k cells A1..Ak, each "=A<i>" (it names itself), followed by sheet T
\* with A1 "=B1" and B1 "=A1"
LoopWorkbook(k) ==
  [sheets |->
     <<Sheet(SheetS, [i \in 1..k |-> Cell(Addr("A", i), <<BareRef(Addr("A", i))>>)], k + 1, 2),
       Sheet(SheetT, <<Cell(A1, <<BareRef(B1)>>), Cell(B1, <<BareRef(A1)>>)>>, 2, 3)>>,
   named_cells |-> {}]

Workbooks == SmallWorkbooks \cup {LoopWorkbook(k) : k \in {MaxSelfLoops - 1, MaxSelfLoops}}

\* configurations: overrides.cycle_always_high missing, true or false
Cfgs ==
  {[DefaultCfg EXCEPT !.risk_scoring.overrides.cycle_always_high = o] :
     o \in {Absent, Some(TRUE), Some(FALSE)}}

TopNs == {0, DEFAULT_TOP_N}

\* sheet S, last row 2 and last column C, with formulas in A1, B1 and C1 (A1 alone,
\* naming itself or naming B1), any one of which may be the destination of a
\* defined name
OrphanWorkbooks ==
  {[sheets |-> <<Sheet(SheetS, <<Cell(A1, t1), Cell(B1, t2), Cell(C1, t3)>>, 2, 3)>>,
    named_cells |-> nc] :
     t1 \in {<<>>, <<BareRef(A1)>>, <<BareRef(B1)>>},
     t2 \in {<<>>, <<BareRef(A1)>>},
     t3 \in {<<>>, <<BareRef(A1)>>},
     nc \in {{}, {node_id(SheetS, A1)}, {node_id(SheetS, B1)}}}

\* configurations: the two orphan exclusions switched on or off
OrphanScanCfgs ==
  {[DefaultCfg EXCEPT !.orphan_calculations.exclude_named_ranges = Some(named),
                      !.orphan_calculations.exclude_last_row_or_col = Some(last)] :
     named \in BOOLEAN, last \in BOOLEAN}

\* largest configured trial formula limit
MaxFormulaLimit == 4

F_SUM_ranges ==
  <<"=", "S", "U", "M", "(", "C", "1", ":", "D", "2", ",", "E", ":", "E", ",", "3", ":", "3", ")">>

\* sheet S with its first k formulas of A1 "=B1", B1 "=SUM(C1:D2,E:E,3:3)", followed
\* by sheet T with A1 "=S!A1" and B1 "=A1"
TrialWorkbooks ==
  {[sheets |->
      <<Sheet(SheetS, SubSeq(<<Cell(A1, <<BareRef(B1)>>),
                               Cell(B1, extract_reference_tokens(F_SUM_ranges))>>, 1, k), 2, 3),
        Sheet(SheetT, <<Cell(A1, QualTokens(SheetS, A1)), Cell(B1, <<BareRef(A1)>>)>>, 2, 3)>>,
    named_cells |-> {}] : k \in 0..2}

\* configurations: trial.formula_limit missing, negative, zero or positive,
\* trial.enabled_default missing or given
TrialCfgs ==
  {[DefaultCfg EXCEPT !.trial.formula_limit = fl, !.trial.enabled_default = ed] :
     fl \in {Absent} \cup {Some(n) : n \in -1..MaxFormulaLimit},
     ed \in {Absent, Some(TRUE), Some(FALSE)}}

\* the per-cell steps that can raise
CellSteps == {"volatile", "tokens", "constants", "graph"}

\* sheet S with A1 "=NOW()+B1*Rate*2" and B1 "=A1*2", any of whose steps may raise
\* and whose iteration may raise at any position, followed by sheet T with A1
\* "=B1", whose iteration may raise at once
FaultyWorkbooks ==
  {[sheets |->
      <<[Sheet(SheetS,
               <<CellWith(A1, <<BareRef(B1), NameRef(<<"R", "a", "t", "e">>)>>, 1, 1, f1),
                 CellWith(B1, <<BareRef(A1)>>, 0, 1, f2)>>, 2, 3)
           EXCEPT !.fails_at = at1],
        [Sheet(SheetT, <<Cell(A1, <<BareRef(B1)>>)>>, 2, 3) EXCEPT !.fails_at = at2]>>,
    named_cells |-> {}] :
     f1 \in SUBSET CellSteps, f2 \in SUBSET CellSteps, at1 \in 0..3, at2 \in 0..1}

\* largest number of constant hits of one formula
MaxHits == 2

\* sheet S with A1 (no reference, naming itself or naming Rate; volatile and
\* constant hits) and B1 (no reference or naming A1; constant hits), followed by
\* sheet T with A1 "=1"
SignalWorkbooks ==
  {[sheets |->
      <<Sheet(SheetS, <<CellWith(A1, t1, v, h1, {}), CellWith(B1, t2, 0, h2, {})>>, 2, 3),
        Sheet(SheetT, <<Cell(A1, <<>>)>>, 2, 2)>>,
    named_cells |-> {}] :
     t1 \in {<<>>, <<BareRef(A1)>>, <<NameRef(<<"R", "a", "t", "e">>)>>},
     t2 \in {<<>>, <<BareRef(A1)>>},
     v \in 0..MaxSignal, h1 \in 0..MaxHits, h2 \in 0..1}

\* largest configured max_findings
MaxFindings == 2

\* configurations: max_findings of the two capped lists missing, zero or positive,
\* the constants detector on or off
CapCfgs ==
  {[DefaultCfg EXCEPT !.hardcoded_constants.max_findings = cm,
                      !.hardcoded_constants.enabled = en,
                      !.orphan_calculations.max_findings = om] :
     cm \in {Absent} \cup {Some(n) : n \in 0..MaxFindings},
     om \in {Absent} \cup {Some(n) : n \in 0..MaxFindings},
     en \in {Absent, Some(FALSE)}}

ToggleNames ==
  {"symbolic_counts_as_medium", "top_risk_counts_as_medium", "volatile_counts_as_medium",
   "constants_counts_as_medium", "orphans_counts_as_medium"}

\* configurations without thresholds and weights whose cycle override is off:
\* none, one or all of the five toggles false, cycles_make_high missing or false
ToggleCfgs ==
  LET Scope(off, cmh) ==
        [DefaultScope EXCEPT
           !.symbolic_counts_as_medium =
              IF "symbolic_counts_as_medium" \in off THEN Some(FALSE) ELSE Absent,
           !.top_risk_counts_as_medium =
              IF "top_risk_counts_as_medium" \in off THEN Some(FALSE) ELSE Absent,
           !.volatile_counts_as_medium =
              IF "volatile_counts_as_medium" \in off THEN Some(FALSE) ELSE Absent,
           !.constants_counts_as_medium =
              IF "constants_counts_as_medium" \in off THEN Some(FALSE) ELSE Some(TRUE),
           !.orphans_counts_as_medium =
              IF "orphans_counts_as_medium" \in off THEN Some(FALSE) ELSE Absent,
           !.cycles_make_high = cmh]
  IN  {[DefaultCfg EXCEPT !.risk_scoring =
          [overrides |-> [cycle_always_high |-> Some(FALSE)],
           sheet |-> Scope(off, cmh), workbook |-> Scope(off, cmh)]] :
         off \in {{}, ToggleNames} \cup {{t} : t \in ToggleNames},
         cmh \in {Absent, Some(FALSE)}}

Init ==
  /\ \/ wb \in Workbooks /\ cfg \in Cfgs /\ trial = FALSE
     \/ wb \in OrphanWorkbooks /\ cfg \in OrphanScanCfgs /\ trial = FALSE
     \/ wb \in TrialWorkbooks /\ cfg \in TrialCfgs /\ trial \in BOOLEAN
     \/ wb \in FaultyWorkbooks /\ cfg = DefaultCfg /\ trial = FALSE
     \/ wb \in SignalWorkbooks /\ cfg \in CapCfgs \cup ToggleCfgs /\ trial = FALSE
  /\ top_n \in TopNs
  /\ limit = SCAN_CYCLE_LIMIT
  /\ pc = "sheet"
  /\ ScanStart
  /\ NoCall

Next ==
  \/ StartSheet
  \/ ScanCell
  \/ SheetFails
  \/ Truncate
  \/ EndSheet
  \/ EndScan
  \/ DetectCyclesYield
  \/ DetectCyclesEnd
  \/ RankImpact
  \/ DetectOrphans
  \/ ComputeTiers

Spec == Init /\ [][Next]_vars

\* runs over workbooks with failing steps: no, one or all steps of S!A1 failing,
\* the edge insertion of S!B1 failing or not, sheet S raising at its second cell
\* or not and sheet T raising or not; with the trial limit of one formula when
\* S!B1 does not fail
InitFaulty ==
  /\ wb \in {w \in FaultyWorkbooks :
               /\ Cardinality(w.sheets[1].cells[1].fails) \in {0, 1, Cardinality(CellSteps)}
               /\ w.sheets[1].cells[2].fails \in {{}, {"graph"}}
               /\ w.sheets[1].fails_at \in {0, 2}}
  /\ \/ cfg = DefaultCfg /\ trial = FALSE
     \/ /\ cfg = [DefaultCfg EXCEPT !.trial.formula_limit = Some(1)]
        /\ trial = TRUE
        /\ wb.sheets[1].cells[1].fails \in {{}, CellSteps}
        /\ wb.sheets[1].cells[2].fails = {}
        /\ wb.sheets[1].fails_at = 0
  /\ top_n = DEFAULT_TOP_N
  /\ limit = SCAN_CYCLE_LIMIT
  /\ pc = "sheet"
  /\ ScanStart
  /\ NoCall

\* scan_workbook is straight-line code run by one thread: a step that can be
\* taken is taken
SpecFaulty == InitFaulty /\ [][Next]_vars /\ WF_vars(Next)

(***************************************************************************)
(* The graph functions called on their own, on a graph the builder built.  *)
(***************************************************************************)
\* the graph and formula-node list the scan loop builds for one sheet's cells
RECURSIVE BuildSheet(_, _)
BuildSheet(title, cells) ==
  IF cells = <<>> THEN [g |-> EmptyGraph, symbolic_edges |-> <<>>, formula_nodes |-> <<>>]
  ELSE LET before == BuildSheet(title, SubSeq(cells, 1, Len(cells) - 1))
           cell == cells[Len(cells)]
           built == build_dependency_graph(title, cell.addr, cell.tokens, before.g,
                                           before.symbolic_edges)
       IN  [g |-> built.g, symbolic_edges |-> built.symbolic_edges,
            formula_nodes |-> Append(before.formula_nodes, node_id(title, cell.addr))]

\* formula cells A1, B1, C1 naming up to MaxRefs of each other, or A1..D1 naming
\* at most one of each other
GraphSheets ==
  {<<Cell(A1, t1), Cell(B1, t2), Cell(C1, t3)>> :
     t1 \in BareTokenLists({A1, B1, C1}, MaxRefs),
     t2 \in BareTokenLists({A1, B1, C1}, MaxRefs),
     t3 \in BareTokenLists({A1, B1, C1}, MaxRefs)}
  \cup
  {<<Cell(A1, t1), Cell(B1, t2), Cell(C1, t3), Cell(D1, t4)>> :
     t1 \in BareTokenLists({A1, B1, C1, D1}, 1),
     t2 \in BareTokenLists({A1, B1, C1, D1}, 1),
     t3 \in BareTokenLists({A1, B1, C1, D1}, 1),
     t4 \in BareTokenLists({A1, B1, C1, D1}, 1)}

\* number of references the formulas of a sheet handed to detect_cycles hold in all
MaxEdges == 5

\* formula cells A1, B1, C1 naming each other, with at most MaxEdges references in all
DetectSheets ==
  {<<Cell(A1, ts[1]), Cell(B1, ts[2]), Cell(C1, ts[3])>> :
     ts \in {x \in [1..3 -> BareTokenLists({A1, B1, C1}, Min(3, MaxEdges))] :
               Len(x[1]) + Len(x[2]) + Len(x[3]) <= MaxEdges}}

\* the state in which a graph function is called: the graph built from one sheet
GraphBuilt(sheets) ==
  /\ wb \in {[sheets |-> <<Sheet(SheetS, cells, 2, 5)>>, named_cells |-> {}] :
               cells \in sheets}
  /\ top_n = DEFAULT_TOP_N
  /\ trial = FALSE
  /\ cfg = DefaultCfg
  /\ limit = SCAN_CYCLE_LIMIT
  /\ pc = "call"
  /\ si = 1 /\ ci = 1
  /\ LET built == BuildSheet(SheetS, wb.sheets[1].cells)
     IN  /\ g = built.g
         /\ formula_nodes = built.formula_nodes
         /\ symbolic_edges = built.symbolic_edges
  /\ counters = [volatile_hits |-> 0, symbolic_refs |-> 0, hardcoded_constants_hits |-> 0,
                 formula_scanned |-> 0]
  /\ per_sheet_formula_counts = <<>>
  /\ per_sheet_signals = <<>>
  /\ formula_cells_by_sheet = <<>>
  /\ hardcoded_constants_findings = <<>>
  /\ truncated = FALSE
  /\ errors = <<>>
  /\ cycles = <<>>
  /\ top_risks = <<>>
  /\ orphan_hits = 0
  /\ orphan_findings = <<>>
  /\ sheets_out = <<>>
  /\ workbook_risk = <<>>
  /\ NoCall

InitGraph == GraphBuilt(GraphSheets)

InitDetect == GraphBuilt(DetectSheets)

\* detect_cycles(g, limit) is entered with some limit
CallDetectCycles ==
  /\ pc = "call"
  /\ \E lim \in (0..MaxLimit) \cup {SCAN_CYCLE_LIMIT} :
        /\ limit' = lim
        /\ args' = [fn |-> "detect_cycles", g |-> g, limit |-> lim]
  /\ cycles' = <<>>
  /\ pc' = "cycles"
  /\ UNCHANGED <<wb, top_n, trial, cfg, loopVars, graphVars, countVars, top_risks, orphanVars,
                 tierVars, ret>>

\* downstream_reach(g, start, max_nodes) with max_nodes given or left at its default
CallDownstreamReach ==
  /\ pc = "call"
  /\ \E start \in NodeSet(g), max_nodes \in (1..MaxCap) \cup {DEFAULT_MAX_NODES} :
        /\ args' = [fn |-> "downstream_reach", g |-> g, start |-> start,
                    max_nodes |-> max_nodes]
        /\ ret' = downstream_reach(g, start, max_nodes)
  /\ pc' = "returned"
  /\ UNCHANGED <<inputVars, loopVars, graphVars, countVars, cycles, top_risks, orphanVars,
                 tierVars>>

\* rank_high_risk_cells(g, formula_nodes, top_n)
CallRank ==
  /\ pc = "call"
  /\ \E n \in 0..MaxTopN :
        /\ args' = [fn |-> "rank_high_risk_cells", g |-> g, formula_nodes |-> formula_nodes,
                    top_n |-> n]
        /\ ret' = rank_high_risk_cells(g, formula_nodes, n)
  /\ pc' = "returned"
  /\ UNCHANGED <<inputVars, loopVars, graphVars, countVars, cycles, top_risks, orphanVars,
                 tierVars>>

(***************************************************************************)
(* detectors/circular.py: circular_reference_findings(g).                  *)
(***************************************************************************)
\* graph.py:165  def detect_cycles(g, limit: int = 25)
DEFAULT_CYCLE_LIMIT == 25

\* Python values an item's "cells" can hold, told apart by their type
PyList(seq) == [py |-> "list", v |-> seq]
PyDict(d) == [py |-> "dict", v |-> d]

\* len() of a dict: the number of its keys
DictLen(d) == Cardinality(DOMAIN d)

\* the result built from cycles = detect_cycles(g) (circular.py 14-40): the loop
\* variable cyc is an entry of that list, a dict {"type": ..., "cells": [...]}
circular_reference_findings(cycs) ==
  [rule_id |-> "CIRCULAR_REFERENCE",
   severity |-> IF cycs # <<>> THEN "HIGH" ELSE "LOW",
   cycle_count |-> Len(cycs),
   items |->
     [i \in 1..Len(cycs) |->
        IF DictLen(cycs[i]) = 1
          THEN [cycle_type |-> "self_reference", cells |-> PyDict(cycs[i]),
                explanation |-> "Formula references itself directly (self-loop)."]
          ELSE [cycle_type |-> "multi_cell_cycle", cells |-> PyDict(cycs[i]),
                explanation |-> "Cells form a dependency loop (multi-node cycle)."]]]

\* circular_reference_findings(g) is entered and calls detect_cycles(g)
CallCircularFindings ==
  /\ pc = "call"
  /\ limit' = DEFAULT_CYCLE_LIMIT
  /\ args' = [fn |-> "circular_reference_findings", g |-> g]
  /\ cycles' = <<>>
  /\ pc' = "cycles"
  /\ UNCHANGED <<wb, top_n, trial, cfg, loopVars, graphVars, countVars, top_risks, orphanVars,
                 tierVars, ret>>

\* detect_cycles has returned: the items are built and the result is returned
CircularFindingsReturn ==
  /\ pc = "cycles_returned"
  /\ args.fn = "circular_reference_findings"
  /\ ret' = circular_reference_findings(cycles)
  /\ pc' = "returned"
  /\ UNCHANGED <<inputVars, loopVars, graphVars, countVars, cycles, top_risks, orphanVars,
                 tierVars, args>>

\* circular_reference_findings on its own
NextCirc ==
  \/ CallCircularFindings
  \/ DetectCyclesYield
  \/ DetectCyclesEnd
  \/ CircularFindingsReturn

SpecCirc == InitDetect /\ [][NextCirc]_vars

\* detect_cycles on its own
NextDetect ==
  \/ CallDetectCycles
  \/ DetectCyclesYield
  \/ DetectCyclesEnd

SpecDetect == InitDetect /\ [][NextDetect]_vars

\* downstream_reach on its own
NextReach == CallDownstreamReach

SpecReach == InitGraph /\ [][NextReach]_vars

\* rank_high_risk_cells on its own
NextRank == CallRank

SpecRank == InitGraph /\ [][NextRank]_vars

(***************************************************************************)
(* _compute_risk_tier and detect_hardcoded_constants called on their own.  *)
(***************************************************************************)
\* the state of a process that has scanned nothing
Idle ==
  /\ wb = [sheets |-> <<>>, named_cells |-> {}]
  /\ top_n = DEFAULT_TOP_N
  /\ trial = FALSE
  /\ cfg = DefaultCfg
  /\ limit = SCAN_CYCLE_LIMIT
  /\ ScanStart
  /\ NoCall

AllWeights(w) ==
  [cycles |-> Some(w), top_risk_cells |-> Some(w), volatile_hits |-> Some(w),
   hardcoded_constants |-> Some(w), orphan_formulas |-> Some(w),
   symbolic_refs_per_100 |-> Some(w)]

\* scope blocks: with or without thresholds and weights, the toggles missing or false
ScopeCfgs ==
  {[thresholds |-> th, weights |-> w,
    symbolic_counts_as_medium |-> t, top_risk_counts_as_medium |-> t,
    volatile_counts_as_medium |-> t, constants_counts_as_medium |-> t,
    orphans_counts_as_medium |-> t, cycles_make_high |-> cmh] :
     th \in {Absent, Some([high |-> Some(2), medium |-> Some(1)]),
             Some([high |-> Absent, medium |-> Some(0)]),
             Some([high |-> Some(2), medium |-> Some(0)])},
     w \in {Absent, Some(AllWeights(1)), Some([AllWeights(1) EXCEPT !.cycles = Absent])},
     t \in {Absent, Some(FALSE)},
     cmh \in {Absent, Some(FALSE)}}

ScoringCfgs ==
  {[overrides |-> [cycle_always_high |-> o], sheet |-> sc, workbook |-> sc] :
     o \in {Absent, Some(TRUE), Some(FALSE)}, sc \in ScopeCfgs}

SignalMaps ==
  {[volatile |-> Some(v), symbolic |-> Some(sy), constants |-> Some(c), orphans |-> o] :
     v \in 0..MaxSignal, sy \in 0..MaxSignal, c \in 0..MaxSignal,
     o \in {Absent} \cup {Some(n) : n \in 0..MaxSignal}}

InitTier == pc = "call" /\ Idle

CallComputeRiskTier ==
  /\ pc = "call"
  /\ \E scope \in {"sheet", "workbook"}, signals_map \in SignalMaps, has_cycles \in BOOLEAN,
        top_risk_cells \in 0..MaxSignal, scoring_cfg \in ScoringCfgs :
        /\ args' = [fn |-> "compute_risk_tier", scope |-> scope, signals_map |-> signals_map,
                    has_cycles |-> has_cycles, top_risk_cells |-> top_risk_cells,
                    scoring_cfg |-> scoring_cfg]
        /\ ret' = compute_risk_tier(scope, signals_map, has_cycles, top_risk_cells,
                                    scoring_cfg)
  /\ pc' = "returned"
  /\ UNCHANGED <<inputVars, loopVars, graphVars, countVars, cycles, top_risks, orphanVars,
                 tierVars>>

NextTier == CallComputeRiskTier

SpecTier == InitTier /\ [][NextTier]_vars

\* the characters formulas are made of
FormulaChars == {"A", "1", ".", "*", "+", "-", "(", ")", " "}

F_A1_plus_1 == <<"=", "A", "1", "+", "1">>
F_A1_times_1_05 == <<"=", "A", "1", "*", "1", ".", "0", "5">>
F_1_05_times_A1 == <<"=", "1", ".", "0", "5", "*", "A", "1">>

\* "=" followed by up to MaxFormulaLen characters, and the three formulas above
Formulas ==
  {<<"=">> \o b : b \in SeqsUpTo(FormulaChars, MaxFormulaLen)}
    \cup {F_A1_plus_1, F_A1_times_1_05, F_1_05_times_A1}

\* detector configurations: risky_operators missing, empty or given; risky_functions
\* missing or naming the function A
ConstantCfgs ==
  {[ignore_literals |-> Absent, ignore_functions |-> Absent,
    risky_operators |-> ro, risky_functions |-> rf] :
     ro \in {Absent, Some(<<>>), Some(<<"*", "/">>), Some(<<"+", "-">>)},
     rf \in {Absent, Some(<< <<"A">> >>)}}

InitConst == pc = "call" /\ Idle

CallDetectConstants ==
  /\ pc = "call"
  /\ \E formula \in Formulas, c \in ConstantCfgs :
        /\ args' = [fn |-> "detect_hardcoded_constants", formula |-> formula, cfg |-> c]
        /\ ret' = detect_hardcoded_constants(formula, c)
  /\ pc' = "returned"
  /\ UNCHANGED <<inputVars, loopVars, graphVars, countVars, cycles, top_risks, orphanVars,
                 tierVars>>

NextConst == CallDetectConstants

SpecConst == InitConst /\ [][NextConst]_vars

(***************************************************************************)
(* Graph notions the properties are stated with.                           *)
(***************************************************************************)
\* the nodes reachable from the set S along edges, S included
RECURSIVE Closure(_, _)
Closure(gr, S) ==
  LET nxt == S \cup {e[2] : e \in {x \in EdgeSet(gr) : x[1] \in S}}
  IN  IF nxt = S THEN S ELSE Closure(gr, nxt)

\* the nodes reachable from n by a path of at least one edge
ReachableFrom(gr, n) == Closure(gr, {e[2] : e \in {x \in EdgeSet(gr) : x[1] = n}})

\* n lies on a cycle
OnCycle(gr, n) == n \in ReachableFrom(gr, n)

\* node n is a cell of the sheet titled title
CellOfSheet(n, title) ==
  Len(n) > Len(title) + 1 /\ SubSeq(n, 1, Len(title) + 1) = title \o <<"!">>

ScanDone == pc = "done"

\* c is a simple cycle of gr written as its node sequence: distinct nodes, each
\* with an edge to the next and the last with an edge to the first
IsSimpleCycle(gr, c) ==
  /\ Len(c) >= 1
  /\ \A i, j \in 1..Len(c) : i # j => c[i] # c[j]
  /\ \A i \in 1..Len(c) : <<c[i], c[(i % Len(c)) + 1]>> \in EdgeSet(gr)

\* every simple cycle of gr, in every rotation
AllSimpleCycles(gr) ==
  {c \in SeqsUpTo(NodeSet(gr), Cardinality(NodeSet(gr))) : IsSimpleCycle(gr, c)}

\* c and d are the same cycle, written from different nodes
SameCycle(c, d) ==
  Len(c) = Len(d) /\ \E k \in 1..Len(c) : d = SubSeq(c, k, Len(c)) \o SubSeq(c, 1, k - 1)

\* number of distinct simple cycles of gr: each cycle counted in the rotation that
\* starts at its smallest node identifier
CycleCount(gr) ==
  Cardinality({c \in AllSimpleCycles(gr) : \A k \in 2..Len(c) : StrLt(c[1], c[k])})

\* the orderings of a list
Orderings(seq) ==
  {[i \in 1..Len(seq) |-> seq[f[i]]] : f \in Permutations(1..Len(seq))}

\* the (reach, fan_out) pair a is strictly greater than b, lexicographically
PairGt(a, b) == a[1] > b[1] \/ (a[1] = b[1] /\ a[2] > b[2])

NodeA1 == node_id(SheetS, A1)
NodeB1 == node_id(SheetS, B1)
NodeC1 == node_id(SheetS, C1)
NodeD1 == node_id(SheetS, D1)

CyclesReturned == pc = "cycles_returned"
ReachReturned == pc = "returned" /\ args.fn = "downstream_reach"
RankReturned == pc = "returned" /\ args.fn = "rank_high_risk_cells"

(***************************************************************************)
(* Properties of detect_cycles.                                            *)
(***************************************************************************)
\* C3: when the graph has fewer distinct simple cycles than limit, detect_cycles
\* returns every simple cycle exactly once: each entry is a cycle of the graph
\* in edge order, no two entries are the same cycle (rotations included), every
\* cycle of the graph has an entry, a self-referencing node is a 1-element
\* entry, and the graph of A1 "=B1", B1 "=A1" gives exactly one entry of
\* length 2 holding both nodes.
C3_EveryCycleOnce ==
  (CyclesReturned /\ CycleCount(g) < limit) =>
    /\ \A i \in 1..Len(cycles) :
         cycles[i].type = "cycle" /\ IsSimpleCycle(g, cycles[i].cells)
    /\ \A i, j \in 1..Len(cycles) :
         i # j => ~SameCycle(cycles[i].cells, cycles[j].cells)
    /\ \A c \in AllSimpleCycles(g) :
         \E i \in 1..Len(cycles) : SameCycle(c, cycles[i].cells)
    /\ \A n \in NodeSet(g) :
         <<n, n>> \in EdgeSet(g) => \E i \in 1..Len(cycles) : cycles[i].cells = <<n>>
    /\ EdgeSet(g) = {<<NodeA1, NodeB1>>, <<NodeB1, NodeA1>>} =>
         /\ Len(cycles) = 1
         /\ Len(cycles[1].cells) = 2
         /\ Range(cycles[1].cells) = {NodeA1, NodeB1}

\* C3 witness: a returned list under a limit above the cycle count that holds a
\* self-loop entry and a two-node cycle
C3_Witness ==
  /\ CyclesReturned /\ CycleCount(g) < limit
  /\ Len(cycles) = 2
  /\ \E i, j \in 1..2 : Len(cycles[i].cells) = 1 /\ Len(cycles[j].cells) = 2

\* C4: detect_cycles never returns more than limit entries, for every limit >= 0,
\* and adds no error entry when it stops at the limit.
C4_AtMostLimitEntries ==
  (CyclesReturned /\ limit >= 0) =>
    /\ Len(cycles) <= limit
    /\ \A i \in 1..Len(cycles) : cycles[i].type # "error"

(***************************************************************************)
(* Properties of downstream_reach and rank_high_risk_cells.                *)
(***************************************************************************)
\* the reach the ranker reported for node n
ReportedReach(out, n) == out[CHOOSE i \in 1..Len(out) : out[i].cell = n].downstream_reach

\* C5: when D1 references C1, C1 references B1 and B1 references A1, all four
\* being formula nodes, the ranker reports downstream_reach 3 for A1, strictly
\* more than it reports for B1, C1 and D1.
C5_ChainHeadReachIsThree ==
  (/\ RankReturned
   /\ {NodeA1, NodeB1, NodeC1, NodeD1} \subseteq Range(args.formula_nodes)
   /\ {<<NodeD1, NodeC1>>, <<NodeC1, NodeB1>>, <<NodeB1, NodeA1>>} \subseteq EdgeSet(g)
   /\ Len(ret) = 4) =>
    /\ ReportedReach(ret, NodeA1) = 3
    /\ \A n \in {NodeB1, NodeC1, NodeD1} :
         ReportedReach(ret, NodeA1) > ReportedReach(ret, n)

\* C6: when the cap is not hit, downstream_reach returns the number of distinct
\* nodes other than start reachable from start; start is never counted, also
\* when it lies on a cycle or has a self-loop.
C6_ReachExcludesStart ==
  (ReachReturned /\ Cardinality(ReachableFrom(g, args.start)) < args.max_nodes) =>
    ret = Cardinality(ReachableFrom(g, args.start) \ {args.start})

\* C7: for max_nodes >= 1 the count downstream_reach returns exceeds neither
\* max_nodes nor the number of nodes reachable from start.
C7_ReachWithinCap ==
  (ReachReturned /\ args.max_nodes >= 1) =>
    /\ ret <= args.max_nodes
    /\ ret <= Cardinality(ReachableFrom(g, args.start))

\* C8: for top_n >= 0 the ranker returns exactly min(top_n, |formula_nodes|)
\* entries, one per formula node, ordered non-increasing by (downstream_reach,
\* direct_fan_out) with direct_fan_out the node's out-degree, and no formula
\* node left out has a strictly greater pair than an included one.
C8_TopNByReachThenFanOut ==
  (RankReturned /\ args.top_n >= 0) =>
    LET pair(n) == <<downstream_reach(g, n, DEFAULT_MAX_NODES),
                     Cardinality({e \in EdgeSet(g) : e[1] = n})>>
        got(i) == <<ret[i].downstream_reach, ret[i].direct_fan_out>>
        included == {ret[i].cell : i \in 1..Len(ret)}
    IN  /\ Len(ret) = Min(args.top_n, Len(args.formula_nodes))
        /\ \A i \in 1..Len(ret) :
             ret[i].cell \in Range(args.formula_nodes) /\ got(i) = pair(ret[i].cell)
        /\ \A i, j \in 1..Len(ret) : i # j => ret[i].cell # ret[j].cell
        /\ \A i \in 1..(Len(ret) - 1) : ~PairGt(got(i + 1), got(i))
        /\ \A n \in Range(args.formula_nodes) \ included :
             \A i \in 1..Len(ret) : ~PairGt(pair(n), got(i))

\* C8 witness: a ranking cut short of the formula nodes, led by a strictly
\* greater reach, that leaves out a node
C8_Witness ==
  /\ RankReturned
  /\ args.top_n = 2 /\ Len(args.formula_nodes) = 4 /\ Len(ret) = 2
  /\ ret[1].downstream_reach > ret[2].downstream_reach
  /\ ret[2].direct_fan_out > 0

\* C9: entries with equal (reach, fan_out) are ordered by node identifier
\* (descending), so the ranker returns the identical list for every ordering of
\* formula_nodes, and the graph is what it was when the ranker was called.
C9_RankerDeterministic ==
  RankReturned =>
    /\ \A i, j \in 1..Len(ret) :
         (/\ i < j
          /\ ret[i].downstream_reach = ret[j].downstream_reach
          /\ ret[i].direct_fan_out = ret[j].direct_fan_out) => StrLt(ret[j].cell, ret[i].cell)
    /\ \A p \in Orderings(args.formula_nodes) :
         rank_high_risk_cells(g, p, args.top_n) = ret
    /\ g = args.g

\* C9 witness: a ranking whose first two entries tie on (reach, fan_out), cut
\* between tied nodes
C9_Witness ==
  /\ RankReturned
  /\ Len(ret) = 2 /\ Len(args.formula_nodes) >= 3
  /\ ret[1].downstream_reach = ret[2].downstream_reach
  /\ ret[1].direct_fan_out = ret[2].direct_fan_out
  /\ \E n \in Range(args.formula_nodes) \ {ret[1].cell, ret[2].cell} :
       /\ downstream_reach(g, n, DEFAULT_MAX_NODES) = ret[2].downstream_reach
       /\ out_degree(g, n) = ret[2].direct_fan_out

(***************************************************************************)
(* Properties of the end-to-end scan.                                      *)
(***************************************************************************)
\* C2: with cycle_always_high at its default, at the end of a completed scan
\* every sheet owning a cell that lies on a cycle of the built graph is tiered
\* HIGH, and the workbook is tiered HIGH whenever the graph has a cycle,
\* however many cycles there are.
C2_CyclicSheetsAreHigh ==
  (ScanDone /\ Get(cfg.risk_scoring.overrides.cycle_always_high, TRUE)) =>
    /\ \A i \in 1..Len(sheets_out) :
         (\E n \in NodeSet(g) : CellOfSheet(n, sheets_out[i].sheet) /\ OnCycle(g, n))
           => sheets_out[i].risk = "HIGH"
    /\ (\E n \in NodeSet(g) : OnCycle(g, n)) => workbook_risk.workbook_risk = "HIGH"

(***************************************************************************)
(* Properties of _compute_risk_tier.                                       *)
(***************************************************************************)
TierReturned == pc = "returned" /\ args.fn = "compute_risk_tier"

\* C1: for either scope, whenever has_cycles is true and
\* overrides.cycle_always_high is missing or true, the result is tier HIGH with
\* reason "circular dependency detected", whatever the signal counts,
\* top_risk_cells, thresholds, weights and toggles (cycles_make_high = false
\* included).
C1_CycleOverrideForcesHigh ==
  (/\ TierReturned
   /\ args.has_cycles
   /\ args.scoring_cfg.overrides.cycle_always_high \in {Absent, Some(TRUE)}) =>
    ret = <<"HIGH", "circular dependency detected">>

\* C1 witness: the override decides a workbook-scope call whose configuration
\* has thresholds and weights and turns cycles_make_high off
C1_Witness ==
  /\ TierReturned
  /\ args.has_cycles
  /\ args.scope = "workbook"
  /\ args.scoring_cfg.overrides.cycle_always_high = Absent
  /\ args.scoring_cfg.workbook.cycles_make_high = Some(FALSE)
  /\ args.scoring_cfg.workbook.thresholds # Absent
  /\ args.scoring_cfg.workbook.weights # Absent
  /\ ret = <<"HIGH", "circular dependency detected">>

(***************************************************************************)
(* Properties of detect_hardcoded_constants.                               *)
(***************************************************************************)
ConstantsReturned == pc = "returned" /\ args.fn = "detect_hardcoded_constants"

\* C10: with risky_operators missing or empty the detector returns exactly the
\* hits it returns with risky_operators = {"*", "/"}: every hit sits next to
\* "*" or "/" or inside a risky function, "=A1+1" gives no hit and "=A1*1.05"
\* gives exactly one hit, literal "1.05" with operator "*".
C10_DefaultRiskyOperators ==
  (ConstantsReturned /\ args.cfg.risky_operators \in {Absent, Some(<<>>)}) =>
    /\ ret = detect_hardcoded_constants(
               args.formula, [args.cfg EXCEPT !.risky_operators = Some(<<"*", "/">>)])
    /\ \A i \in 1..Len(ret) :
         \/ ret[i].operator \in {"*", "/"}
         \/ \E f \in Range(Get(args.cfg.risky_functions, <<>>)) : ret[i].function = Upper(f)
    /\ args.formula = F_A1_plus_1 => ret = <<>>
    /\ args.formula = F_A1_times_1_05 =>
         /\ Len(ret) = 1
         /\ ret[1].literal = <<"1", ".", "0", "5">>
         /\ ret[1].operator = "*"

\* C10 witness: "=A1*1.05" scanned with risky_operators empty gives its one hit
C10_Witness ==
  /\ ConstantsReturned
  /\ args.cfg.risky_operators = Some(<<>>)
  /\ args.formula = F_A1_times_1_05
  /\ Len(ret) = 1

\* the operator next to the literal s[m.start .. m.end - 1]: the first non-blank
\* character left of the literal when it is one of * / + -, otherwise the first
\* non-blank character right of the literal when it is one, otherwise none
AdjacentOperator(s, m) ==
  LET i == SkipSpaceLeft(s, m.start - 1)
      j == SkipSpaceRight(s, m.end)
  IN  IF i >= 1 /\ s[i] \in Operators THEN s[i]
      ELSE IF j <= Len(s) /\ s[j] \in Operators THEN s[j]
      ELSE ""

\* the literal is passed over before its operator is looked at: it touches a
\* letter or $, it is in ignore_literals, or it lies in an ignore_functions call
LiteralSkipped(s, m, c) ==
  LET lit == SubSeq(s, m.start, m.end - 1)
      func == enclosing_function(s, m.start)
  IN  \/ looks_like_cell_ref_near(s, m.start, m.end)
      \/ lit \in CfgSet(c.ignore_literals) \/ LStripSign(lit) \in CfgSet(c.ignore_literals)
      \/ LitIsInteger(lit) /\ LitIntText(lit) \in CfgSet(c.ignore_literals)
      \/ func # <<>> /\ func \in CfgUpperSet(c.ignore_functions)

\* C11: every numeric literal that is not skipped and whose adjacent operator,
\* looked for left of the literal first and right of it otherwise (blanks
\* skipped), is in risky_operators is flagged with that operator; "=1.05*A1"
\* gives the hit 1.05 with operator "*" as "=A1*1.05" does.
C11_OperatorOnEitherSide ==
  ConstantsReturned =>
    LET s == strip_quoted_segments(args.formula)
        ms == NumMatches(s, 1)
    IN  /\ \A k \in 1..Len(ms) :
             (/\ ~LiteralSkipped(s, ms[k], args.cfg)
              /\ AdjacentOperator(s, ms[k]) \in risky_operators_of(args.cfg)) =>
               \E i \in 1..Len(ret) :
                  /\ ret[i].start = ms[k].start - 1
                  /\ ret[i].operator = AdjacentOperator(s, ms[k])
        /\ (args.formula = F_1_05_times_A1 /\ args.cfg.risky_operators = Absent) =>
             /\ Len(ret) = 1
             /\ ret[1].literal = <<"1", ".", "0", "5">>
             /\ ret[1].operator = "*"

(***************************************************************************)
(* detect_formula_drift called on its own.                                 *)
(***************************************************************************)
\* formulas of shape =CELL*NUM (two texts), =CELL+CELL and =CELL
FX == <<"=", "A", "2", "*", "2">>
FX2 == <<"=", " ", "B", "2", " ", "*", " ", "1", "0">>
FY == <<"=", "A", "2", "+", "B", "2">>
FZ == <<"=", "A", "2">>

\* the (addr, formula) pairs of the cells in columns A, B, ... of one row
RowCells(row, formulas) ==
  [i \in 1..Len(formulas) |-> <<Addr(AsciiChars[33 + i], row), formulas[i]>>]

DriftCfg(min_group, ratio, max_findings) ==
  [enabled |-> Absent, min_row_formula_count |-> min_group, dominant_ratio |-> ratio,
   max_findings |-> max_findings]

\* one sheet with a single row of MaxRowCells - 1 or MaxRowCells formulas
WideInputs ==
  {<<[sheet |-> SheetS, cells |-> RowCells(1, f)]>> :
     f \in UNION {[1..n -> {FX, FX2, FY}] : n \in (MaxRowCells - 1)..MaxRowCells}}

\* sheet S with three formulas in row 1 and two in row 2, alone or followed by
\* sheet T with two formulas in row 1
SmallInputs ==
  LET sheetsS == {[sheet |-> SheetS, cells |-> RowCells(1, f1) \o RowCells(2, f2)] :
                    f1 \in [1..3 -> {FX, FY, FZ}],
                    f2 \in [1..2 -> {FX, FY}]}
      sheetsT == {[sheet |-> SheetT, cells |-> RowCells(1, f)] : f \in [1..2 -> {FX, FY}]}
  IN  {<<s1>> : s1 \in sheetsS} \cup {<<s1, s2>> : s1 \in sheetsS, s2 \in sheetsT}

\* small groups and caps for the small sheets
SmallDriftCfgs ==
  {DriftCfg(Some(mg), r, mf) :
     mg \in {2, 3}, r \in {Absent, Some(50)}, mf \in {Absent, Some(1), Some(2)}}

InitDrift == pc = "call" /\ Idle

CallDetectDrift ==
  /\ pc = "call"
  /\ \E call \in (WideInputs \X {DriftCfg(Absent, Absent, Absent)})
                   \cup (SmallInputs \X SmallDriftCfgs)
                   \cup (SmallInputs \X {[DriftCfg(Some(2), Absent, Absent)
                                            EXCEPT !.enabled = Some(FALSE)]}) :
        /\ args' = [fn |-> "detect_formula_drift", formula_cells_by_sheet |-> call[1],
                    cfg |-> call[2]]
        /\ ret' = detect_formula_drift(call[1], call[2])
  /\ pc' = "returned"
  /\ UNCHANGED <<inputVars, loopVars, graphVars, countVars, cycles, top_risks, orphanVars,
                 tierVars>>

NextDrift == CallDetectDrift

SpecDrift == InitDrift /\ [][NextDrift]_vars

(***************************************************************************)
(* Properties of detect_formula_drift.                                     *)
(***************************************************************************)
DriftReturned == pc = "returned" /\ args.fn = "detect_formula_drift"

\* the row number an address ends with
RowOfAddr(addr) == ToNat(SelectSeq(addr, IsDigit))

\* the formula cells handed to the detector
DriftCells(by_sheet) ==
  UNION {{[sheet |-> by_sheet[i].sheet, addr |-> by_sheet[i].cells[j][1],
           row |-> RowOfAddr(by_sheet[i].cells[j][1]),
           shape |-> normalize_formula(by_sheet[i].cells[j][2])] :
            j \in 1..Len(by_sheet[i].cells)} : i \in 1..Len(by_sheet)}

\* the (sheet, row) groups of a set of cells
DriftGroups(cells) ==
  {{d \in cells : d.sheet = c.sheet /\ d.row = c.row} : c \in cells}

\* how many cells of group G have shape sh
Frequency(G, sh) == Cardinality({d \in G : d.shape = sh})

\* the most frequent shapes of group G
MostFrequent(G) ==
  {c.shape : c \in {x \in G : \A y \in G : Frequency(G, y.shape) <= Frequency(G, x.shape)}}

\* the cells a list of findings names
Flagged(out) == {<<out[i].sheet, out[i].cell>> : i \in 1..Len(out)}

\* C12: when the cap is not reached, the findings are exactly the cells of the
\* (sheet, row) groups that have at least min_row_formula_count formula cells
\* and whose most frequent shape has frequency / group size >= dominant_ratio,
\* that differ in shape from that most frequent shape; smaller groups and groups
\* without such a shape yield nothing.  Under the defaults, six cells of one row
\* with shapes X,X,X,X,X,Y flag exactly the Y cell and five cells flag nothing.
C12_DriftFindingsAreTheOutliers ==
  (/\ DriftReturned
   /\ Get(args.cfg.enabled, TRUE)
   /\ Len(ret) < Get(args.cfg.max_findings, DEFAULT_DRIFT_MAX_FINDINGS)) =>
    LET min_group == Get(args.cfg.min_row_formula_count, DEFAULT_MIN_GROUP)
        ratio == Get(args.cfg.dominant_ratio, DEFAULT_DOMINANT_RATIO)
        cells == DriftCells(args.formula_cells_by_sheet)
        InGroup(G) == {<<c.sheet, c.addr>> : c \in G}
        Outliers(G, sh) == {<<c.sheet, c.addr>> : c \in {x \in G : x.shape # sh}}
        Dominated(G) ==
          /\ Cardinality(G) >= min_group
          /\ \E sh \in MostFrequent(G) : Frequency(G, sh) * 100 >= ratio * Cardinality(G)
    IN  /\ Len(ret) = Cardinality(Flagged(ret))
        /\ Flagged(ret) \subseteq {<<c.sheet, c.addr>> : c \in cells}
        /\ \A G \in DriftGroups(cells) :
             IF Dominated(G)
               THEN \E sh \in MostFrequent(G) :
                      Flagged(ret) \cap InGroup(G) = Outliers(G, sh)
               ELSE Flagged(ret) \cap InGroup(G) = {}
        /\ (/\ args.cfg = DriftCfg(Absent, Absent, Absent)
            /\ Cardinality(DriftGroups(cells)) = 1
            /\ Cardinality(cells) = 6
            /\ \E c \in cells :
                 \A d \in cells \ {c} : d.shape = normalize_formula(FX) /\ c.shape # d.shape) =>
             \E c \in cells :
                /\ c.shape # normalize_formula(FX)
                /\ Flagged(ret) = {<<c.sheet, c.addr>>}
        /\ (/\ args.cfg = DriftCfg(Absent, Absent, Absent)
            /\ Cardinality(DriftGroups(cells)) = 1
            /\ Cardinality(cells) = 5) => ret = <<>>

\* C12 witness: under the defaults a row of five =CELL*NUM formulas, written in
\* two ways, and one =CELL+CELL formula has its sixth cell flagged
C12_Witness ==
  /\ DriftReturned
  /\ args.cfg = DriftCfg(Absent, Absent, Absent)
  /\ args.formula_cells_by_sheet =
       <<[sheet |-> SheetS, cells |-> RowCells(1, <<FX, FX2, FX, FX2, FX, FY>>)]>>
  /\ Len(ret) = 1
  /\ ret[1].cell = Addr("F", 1)

\* C13: for every input and every positive max_findings the detector returns at
\* most max_findings findings, and it stops at the cap: what it returns is the
\* beginning of what it returns without a cap, cut at max_findings.
C13_DriftCapHolds ==
  (/\ DriftReturned
   /\ Get(args.cfg.max_findings, DEFAULT_DRIFT_MAX_FINDINGS) > 0) =>
    LET max_findings == Get(args.cfg.max_findings, DEFAULT_DRIFT_MAX_FINDINGS)
        uncapped == detect_formula_drift(
                      args.formula_cells_by_sheet,
                      [args.cfg EXCEPT !.max_findings =
                         Some(1 + Cardinality(DriftCells(args.formula_cells_by_sheet)))])
    IN  /\ Len(ret) <= max_findings
        /\ ret = SubSeq(uncapped, 1, Min(max_findings, Len(uncapped)))

\* C13 witness: a cap of 1 cuts a result that has findings in both sheets
C13_Witness ==
  /\ DriftReturned
  /\ args.cfg.max_findings = Some(1)
  /\ Len(ret) = 1
  /\ Len(detect_formula_drift(args.formula_cells_by_sheet,
                              [args.cfg EXCEPT !.max_findings = Absent])) >= 3
  /\ Len(args.formula_cells_by_sheet) = 2

(***************************************************************************)
(* Properties of the orphan calculation of the scan.                       *)
(***************************************************************************)
\* the formula cell behind node n is among the orphan findings
ReportedOrphan(n) ==
  \E i \in 1..Len(orphan_findings) :
     node_id(orphan_findings[i].sheet, orphan_findings[i].cell) = n

\* the cell behind node n lies on the last row or the last column of its sheet
OnLastRowOrColumn(w, n) ==
  \E i \in 1..Len(w.sheets) :
     /\ CellOfSheet(n, w.sheets[i].title)
     /\ LET addr == SubSeq(n, Len(w.sheets[i].title) + 2, Len(n))
            NotDigit(c) == ~IsDigit(c)
        IN  \/ RowOfAddr(addr) = w.sheets[i].max_row
            \/ ColumnNumber(SelectSeq(addr, NotDigit)) = w.sheets[i].max_column

\* C14: with the cap not reached, a formula node of a sheet that is not excluded
\* is among the orphan findings exactly when no formula node other than itself
\* has an edge to it, it is not on its sheet's last row or column while the
\* boundary exclusion is on, and it is not a named-range destination while the
\* named-range exclusion is on; a self-reference is not an edge from another
\* formula.
C14_OrphanIffUnreferenced ==
  LET ocfg == cfg.orphan_calculations
  IN  (/\ ScanDone
       /\ Get(ocfg.enabled, TRUE)
       /\ Len(orphan_findings) < Get(ocfg.max_findings, DEFAULT_MAX_FINDINGS)) =>
        \A n \in Range(formula_nodes) :
           (\A x \in CfgSet(ocfg.exclude_sheets) : ~CellOfSheet(n, x)) =>
             (ReportedOrphan(n) <=>
                /\ ~\E m \in Range(formula_nodes) \ {n} : <<m, n>> \in EdgeSet(g)
                /\ ~(Get(ocfg.exclude_last_row_or_col, TRUE) /\ OnLastRowOrColumn(wb, n))
                /\ ~(Get(ocfg.exclude_named_ranges, TRUE) /\ n \in wb.named_cells))

(***************************************************************************)
(* extract_reference_tokens called directly.  The formulas are the texts   *)
(* the functional examples name and every text put together from at most   *)
(* MaxParts pieces of formula text.                                        *)
(***************************************************************************)
MaxParts == 3

F_Sheet2_A1_B5 == <<"=", "S", "h", "e", "e", "t", "2", "!", "A", "1", ":", "B", "5">>
F_SUM_Table1_Amount == <<"=", "S", "U", "M", "(", "T", "a", "b", "l", "e", "1", "[", "A", "m", "o", "u", "n", "t", "]", ")">>
F_A1_plus_B2 == <<"=", "A", "1", "+", "B", "2">>
F_NOW_plus_A1 == <<"=", "N", "O", "W", "(", ")", "+", "A", "1">>
F_LOG10_A1 == <<"=", "L", "O", "G", "1", "0", "(", "A", "1", ")">>
F_Quoted_A1 == <<"=", "'", "M", "y", " ", "S", "'", "!", "A", "1">>

FormulaParts ==
  {<<"A", "1">>, <<"B", "2">>, <<"$", "A", "$", "1">>, <<"S", "!">>, <<"R", "a", "t", "e">>, <<"N", "O", "W">>, <<"S", "U", "M", "(">>,
   <<")">>, <<"+">>, <<"T", "[", "x", "]">>, <<":">>}

\* the texts of a sequence of texts, joined
RECURSIVE JoinTexts(_)
JoinTexts(q) == IF q = <<>> THEN <<>> ELSE Head(q) \o JoinTexts(Tail(q))

TokFormulas ==
  {F_Sheet2_A1_B5, F_SUM_Table1_Amount, F_A1_plus_B2, F_NOW_plus_A1, F_LOG10_A1,
   F_Quoted_A1, <<>>}
    \cup {<<"=">> \o JoinTexts(q) : q \in SeqsUpTo(FormulaParts, MaxParts)}
    \cup {JoinTexts(q) : q \in SeqsUpTo(FormulaParts, 1)}

InitTok == pc = "call" /\ Idle

CallExtractTokens ==
  /\ pc = "call"
  /\ \E formula \in TokFormulas :
        /\ args' = [fn |-> "extract_reference_tokens", formula |-> formula]
        /\ ret' = extract_reference_tokens(formula)
  /\ pc' = "returned"
  /\ UNCHANGED <<inputVars, loopVars, graphVars, countVars, cycles, top_risks, orphanVars,
                 tierVars>>

NextTok == CallExtractTokens

SpecTok == InitTok /\ [][NextTok]_vars

(***************************************************************************)
(* Properties of extract_reference_tokens.                                 *)
(***************************************************************************)
TokensReturned == pc = "returned" /\ args.fn = "extract_reference_tokens"

\* the step a token is from, read off the token: 1 a structured reference (the
\* only tokens with "[" in raw), 2 a sheet-qualified address (the only ones with
\* a sheet), 3 a bare address, 4 a name
TokenStep(t) ==
  IF t.sheet # None THEN 2
  ELSE IF ~t.symbolic THEN 3
  ELSE IF "[" \in Range(t.raw) THEN 1
  ELSE 4

\* the index of the first occurrence of x in q
FirstIndex(q, x) == CHOOSE i \in 1..Len(q) : q[i] = x /\ \A j \in 1..(i - 1) : q[j] # x

\* out lists every element of matches once, at the rank of its first occurrence
FirstOccurrences(out, matches) ==
  /\ Range(out) = Range(matches)
  /\ \A i, j \in 1..Len(out) :
        i < j => /\ out[i] # out[j]
                 /\ FirstIndex(matches, out[i]) < FirstIndex(matches, out[j])

\* the tokens of step k in q, in the order of q
OfStep(q, k) == LET From(t) == TokenStep(t) = k IN SelectSeq(q, From)

\* C15: the output holds no two tokens with the same (raw, sheet, kind,
\* symbolic); the tokens of structured references come first, then those of
\* sheet-qualified addresses, then bare addresses, then names; and within each
\* step every distinct token stands once, at the rank of its first match.
C15_DedupKeepsFirstInStepOrder ==
  TokensReturned /\ args.formula # <<>> =>
    LET f == FormulaBody(args.formula)
    IN  /\ \A i, j \in 1..Len(ret) : i < j => ret[i] # ret[j]
        /\ \A i, j \in 1..Len(ret) : i < j => TokenStep(ret[i]) <= TokenStep(ret[j])
        /\ FirstOccurrences(OfStep(ret, 1), StructuredTokensFrom(f, 1))
        /\ FirstOccurrences(OfStep(ret, 2), SheetTokensFrom(f, 1))
        /\ FirstOccurrences(OfStep(ret, 3), BareTokensFrom(f, 1))
        /\ FirstOccurrences(OfStep(ret, 4), NameTokensFrom(f, 1))

\* C15 witness: a formula whose bare addresses repeat after another address came
\* between, with tokens of two steps in the output
C15_Witness ==
  /\ TokensReturned
  /\ LET bare == BareTokensFrom(FormulaBody(args.formula), 1)
     IN  Len(bare) = 3 /\ bare[1] = bare[3] /\ bare[1] # bare[2]
  /\ Cardinality({TokenStep(ret[i]) : i \in 1..Len(ret)}) >= 2

\* a name of letters, digits and "_" that does not start with a digit
IsIdentifier(t) ==
  /\ Len(t) >= 1
  /\ t[1] \in NameStartChars
  /\ \A i \in 1..Len(t) : t[i] \in WordChars

\* the whole of t is one address (a range, a cell, whole columns or whole rows)
IsAddress(t) == Len(t) >= 1 /\ AddrEnd(t, 1) = Len(t) + 1

\* C16: a formula that is one sheet-qualified address, "=<sheet>!<address>",
\* yields exactly one token: non-symbolic, with that sheet and the kind of the
\* address; "=Sheet2!A1:B5" yields the single range token A1:B5 of Sheet2.
C16_QualifiedAddressIsOneToken ==
  TokensReturned =>
    LET f == args.formula
    IN  /\ \A b \in 2..Len(f) :
              LET sheet == SubSeq(f, 2, b - 1)
                  addr == SubSeq(f, b + 1, Len(f))
              IN  (f[1] = "=" /\ f[b] = "!" /\ IsIdentifier(sheet) /\ IsAddress(addr)) =>
                     ret = <<RefToken(addr, sheet, kind_from_addr(addr), FALSE)>>
        /\ f = F_Sheet2_A1_B5 =>
              ret = <<RefToken(<<"A", "1", ":", "B", "5">>, <<"S", "h", "e", "e", "t", "2">>, "range", FALSE)>>

\* C17: a formula that is one function call whose argument is a structured
\* reference, "=<function>(<name>[<column>])", yields exactly one token: symbolic,
\* its raw the whole text <name>[<column>]; "=SUM(Table1[Amount])" yields the
\* single token Table1[Amount].
C17_StructuredArgumentIsOneToken ==
  TokensReturned =>
    LET f == args.formula
        n == Len(f)
    IN  /\ \A o, k \in 2..n :
              (/\ f[1] = "=" /\ f[o] = "(" /\ f[k] = "[" /\ o < k /\ k + 2 < n
               /\ f[n] = ")" /\ f[n - 1] = "]"
               /\ IsIdentifier(SubSeq(f, 2, o - 1))
               /\ IsIdentifier(SubSeq(f, o + 1, k - 1))
               /\ IsIdentifier(SubSeq(f, k + 1, n - 2))) =>
                 ret = <<RefToken(SubSeq(f, o + 1, n - 1), None, "symbolic", TRUE)>>
        /\ f = F_SUM_Table1_Amount =>
              ret = <<RefToken(<<"T", "a", "b", "l", "e", "1", "[", "A", "m", "o", "u", "n", "t", "]">>, None, "symbolic", TRUE)>>

\* the identifiers of s from index p on, as the name step finds them: each the
\* pair of its first index and the index after its last
RECURSIVE IdentifiersFrom(_, _)
IdentifiersFrom(s, p) ==
  IF p > Len(s) THEN {}
  ELSE LET e == NameEnd(s, p)
       IN  IF e = 0 THEN IdentifiersFrom(s, p + 1)
           ELSE {<<p, e>>} \cup IdentifiersFrom(s, e)

\* text t stands in s at index q
StandsAt(t, s, q) == q >= 1 /\ q + Len(t) - 1 <= Len(s) /\ SubSeq(s, q, q + Len(t) - 1) = t

\* text t stands in s, and only within s[p..e-1]
OnlyWithin(t, s, p, e) ==
  /\ \E q \in 1..Len(s) : StandsAt(t, s, q)
  /\ \A q \in 1..Len(s) : StandsAt(t, s, q) => p <= q /\ q + Len(t) <= e

\* C18: no token comes from an identifier that "(" follows (no token's raw is
\* text found only within such an identifier); an identifier that is a cell
\* address gives its non-symbolic cell token and nothing else (every token whose
\* raw is found only within it has the identifier as raw, kind cell and is not
\* symbolic); "=A1+B2" yields exactly the cell tokens A1 and B2, "=NOW()+A1"
\* exactly the cell token A1.
C18_NameStepExclusions ==
  TokensReturned =>
    LET f == FormulaBody(args.formula)
    IN  /\ \A id \in IdentifiersFrom(f, 1) :
              LET name == SubSeq(f, id[1], id[2] - 1)
              IN  /\ CharAt(f, id[2]) = "(" =>
                        \A i \in 1..Len(ret) : ~OnlyWithin(ret[i].raw, f, id[1], id[2])
                  /\ (CharAt(f, id[2]) # "(" /\ TokCellEnd(name, 1) = Len(name) + 1) =>
                        \A i \in 1..Len(ret) :
                           OnlyWithin(ret[i].raw, f, id[1], id[2]) =>
                             /\ ret[i].raw = name
                             /\ ret[i].kind = "cell"
                             /\ ~ret[i].symbolic
        /\ args.formula = F_A1_plus_B2 => ret = <<BareRef(<<"A", "1">>), BareRef(<<"B", "2">>)>>
        /\ args.formula = F_NOW_plus_A1 => ret = <<BareRef(<<"A", "1">>)>>

(***************************************************************************)
(* build_dependency_graph called incrementally: up to MaxCalls calls on    *)
(* one graph, each for a formula cell of sheet S or T with the tokens of   *)
(* its formula, or with a token list that holds a token without raw.       *)
(* args.calls is the list of the calls made so far.                        *)
(***************************************************************************)
MaxCalls == 2

BuildFormulas ==
  {<<"=", "A", "1">>, <<"=", "B", "1">>, <<"=", "$", "A", "$", "1">>, <<"=", "S", "!", "A", "1">>, <<"=", "A", "1", "+", "B", "1">>, <<"=", "R", "a", "t", "e", "*", "A", "1">>, <<"=", "1">>}

BuildRefLists ==
  {extract_reference_tokens(f) : f \in BuildFormulas}
    \cup {<<RefToken(<<>>, None, "symbolic", TRUE), BareRef(A1)>>}

InitBuild == pc = "call" /\ Idle

CallBuildDependencyGraph ==
  /\ pc \in {"call", "returned"}
  /\ args.fn = "build_dependency_graph" => Len(args.calls) < MaxCalls
  /\ \E sheet_name \in {SheetS, SheetT}, cell_addr \in {A1, B1}, refs \in BuildRefLists :
        LET st == build_dependency_graph(sheet_name, cell_addr, refs, g, symbolic_edges)
            made == IF args.fn = "build_dependency_graph" THEN args.calls ELSE <<>>
        IN  /\ g' = st.g
            /\ symbolic_edges' = st.symbolic_edges
            /\ args' = [fn |-> "build_dependency_graph",
                        calls |-> Append(made, [sheet_name |-> sheet_name,
                                                cell_addr |-> cell_addr, refs |-> refs])]
  /\ ret' = <<>>
  /\ pc' = "returned"
  /\ UNCHANGED <<inputVars, loopVars, formula_nodes, countVars, cycles, top_risks,
                 orphanVars, tierVars>>

NextBuild == CallBuildDependencyGraph

SpecBuild == InitBuild /\ [][NextBuild]_vars

(***************************************************************************)
(* Properties of build_dependency_graph.                                   *)
(***************************************************************************)
BuildReturned == pc = "returned" /\ args.fn = "build_dependency_graph"

\* the tokens of a call that have a raw text
RawTokens(c) == {t \in Range(c.refs) : t.raw # <<>>}

\* the (dependent, target) pairs the calls name
NamedPairs(calls) ==
  UNION {{<<node_id(c.sheet_name, c.cell_addr),
            node_id(IF t.sheet # None THEN t.sheet ELSE c.sheet_name, t.raw)>> :
             t \in RawTokens(c)} : c \in Range(calls)}

\* C19: after any sequence of incremental calls the edges of the graph are
\* exactly the pairs (sheet!cellAddr, (token.sheet or sheet)!token.raw) of the
\* calls' tokens that have a raw text, each edge held once; every dependent and
\* every target is a node; and making any of the calls again changes neither
\* the nodes nor the edges.
C19_EdgesAreTheNamedPairs ==
  BuildReturned =>
    LET pairs == NamedPairs(args.calls)
    IN  /\ EdgeSet(g) = pairs
        /\ Len(g.edges) = Cardinality(pairs)
        /\ {node_id(c.sheet_name, c.cell_addr) : c \in Range(args.calls)} \subseteq NodeSet(g)
        /\ {e[2] : e \in pairs} \subseteq NodeSet(g)
        /\ \A c \in Range(args.calls) :
              LET again == build_dependency_graph(c.sheet_name, c.cell_addr, c.refs, g,
                                                  symbolic_edges).g
              IN  /\ NodeSet(again) = NodeSet(g)
                  /\ EdgeSet(again) = EdgeSet(g)
                  /\ Len(again.nodes) = Len(g.nodes)
                  /\ Len(again.edges) = Len(g.edges)

\* C19 witness: the same call made twice, with two tokens in it that name one
\* target
C19_Witness ==
  /\ BuildReturned
  /\ Len(args.calls) = 2
  /\ args.calls[1] = args.calls[2]
  /\ \E i, j \in 1..Len(args.calls[1].refs) :
        /\ i # j
        /\ args.calls[1].refs[i].raw # <<>>
        /\ RefNode(args.calls[1].sheet_name, args.calls[1].refs[i])
             = RefNode(args.calls[1].sheet_name, args.calls[1].refs[j])
  /\ Len(g.edges) >= 1

\* an address without its "$" markers
WithoutDollar(addr) == LET Kept(c) == c # "$" IN SelectSeq(addr, Kept)

\* token t names one cell
IsCellToken(t) == t.kind = "cell" /\ ~t.symbolic

\* the cell a cell token of call c refers to: its sheet, written in the token or
\* the sheet of the formula, and its address
CellReferredTo(c, t) == <<RefSheet(c.sheet_name, t), WithoutDollar(t.raw)>>

\* C20: two cell tokens that refer to the same cell of the same sheet resolve to
\* the same node, with the sheet written or not and with "$" markers or not; and
\* a token that refers to a cell for which a call was made resolves to that
\* cell's node, to which the graph has the edge.
C20_SameCellSameNode ==
  BuildReturned =>
    LET calls == Range(args.calls)
    IN  /\ \A c1, c2 \in calls :
              \A t1 \in Range(c1.refs), t2 \in Range(c2.refs) :
                 (/\ IsCellToken(t1) /\ IsCellToken(t2)
                  /\ CellReferredTo(c1, t1) = CellReferredTo(c2, t2)) =>
                    RefNode(c1.sheet_name, t1) = RefNode(c2.sheet_name, t2)
        /\ \A c, d \in calls :
              \A t \in Range(c.refs) :
                 (IsCellToken(t) /\ CellReferredTo(c, t) = <<d.sheet_name, d.cell_addr>>) =>
                    /\ RefNode(c.sheet_name, t) = node_id(d.sheet_name, d.cell_addr)
                    /\ <<node_id(c.sheet_name, c.cell_addr),
                         node_id(d.sheet_name, d.cell_addr)>> \in EdgeSet(g)

\* the number of tokens of the calls that are marked symbolic and have a raw text
RECURSIVE SymbolicTokenCount(_)
SymbolicTokenCount(calls) ==
  IF calls = <<>> THEN 0
  ELSE LET Marked(t) == t.symbolic /\ t.raw # <<>>
       IN  Len(SelectSeq(Head(calls).refs, Marked)) + SymbolicTokenCount(Tail(calls))

\* C21: after any sequence of incremental calls every record of the symbolic
\* side table names an edge dependent -> ref of the graph, every record is that
\* of a token marked symbolic of one of the calls, and there are as many
\* records as such tokens were handed in.
C21_SymbolicRecordsAreEdges ==
  BuildReturned =>
    /\ \A i \in 1..Len(symbolic_edges) :
          LET rec == symbolic_edges[i]
          IN  /\ <<rec.dependent, rec.ref>> \in EdgeSet(g)
              /\ \E c \in Range(args.calls) :
                    \E t \in Range(c.refs) :
                       /\ t.symbolic
                       /\ rec.dependent = node_id(c.sheet_name, c.cell_addr)
                       /\ rec.ref = RefNode(c.sheet_name, t)
                       /\ rec.raw = t.raw
    /\ Len(symbolic_edges) = SymbolicTokenCount(args.calls)

\* C21 witness: two calls whose token lists hold symbolic and non-symbolic
\* tokens, with records in the side table
C21_Witness ==
  /\ BuildReturned
  /\ Len(args.calls) = 2
  /\ \A c \in Range(args.calls) :
        /\ \E t \in Range(c.refs) : t.symbolic /\ t.raw # <<>>
        /\ \E t \in Range(c.refs) : ~t.symbolic
  /\ Len(symbolic_edges) >= 2

(***************************************************************************)
(* Properties of the scan loop: trial cutoff and error isolation.          *)
(***************************************************************************)
\* what the loop records of the formula cells it processes: graph, formula
\* nodes, counters, the drift detector's input and the kept constant findings
\* (of the per-sheet signals the three the loop counts)
ScanRecord ==
  <<g, formula_nodes, symbolic_edges, counters, per_sheet_formula_counts,
    formula_cells_by_sheet, hardcoded_constants_findings,
    [t \in DOMAIN per_sheet_signals |->
       <<per_sheet_signals[t].volatile, per_sheet_signals[t].symbolic,
         per_sheet_signals[t].constants>>]>>

\* the loop stands at a formula cell of the current sheet
AtFormulaCell ==
  /\ pc = "cell"
  /\ ci <= Len(wb.sheets[si].cells)
  /\ wb.sheets[si].fails_at # ci

\* trial mode is enabled by the command line or by the configuration
TrialEnabled == trial \/ Get(cfg.trial.enabled_default, FALSE)

\* the formula limit L of the run
TrialLimit == trial_settings(cfg, trial).formula_limit

\* C22: with trial mode enabled and formula limit L the number of formulas
\* scanned never exceeds L; the step that meets a formula cell after L formulas
\* were scanned records nothing of it and marks the run truncated; once the run
\* is truncated the loop is left and nothing is recorded any more; with trial
\* mode disabled the run is never marked truncated.
C22_TrialCutoff ==
  /\ [](TrialLimit >= 1)
  /\ [](TrialEnabled => counters.formula_scanned <= TrialLimit)
  /\ [](~TrialEnabled => ~truncated)
  /\ [](truncated =>
          TrialEnabled /\ counters.formula_scanned = TrialLimit /\ pc \notin {"sheet", "cell"})
  /\ [][(AtFormulaCell /\ TrialEnabled /\ counters.formula_scanned >= TrialLimit) =>
          (truncated' /\ UNCHANGED ScanRecord)]_vars
  /\ [][truncated => (truncated' /\ UNCHANGED <<ScanRecord, si, ci>>)]_vars

\* C22 witness: a finished trial run that was cut at the second sheet, whose
\* first formula is in none of the records
C22_Witness ==
  /\ pc = "done"
  /\ truncated
  /\ si = 2 /\ ci = 1
  /\ counters.formula_scanned = 2
  /\ formula_cells_by_sheet[SheetT] = <<>>
  /\ node_id(SheetT, A1) \notin Range(formula_nodes)

\* the formula cells of sheet i the iteration hands out: all of them, or those
\* before the position at which iterating the sheet raises
CellsHandedOut(i) ==
  LET s == wb.sheets[i]
  IN  IF s.fails_at \in 1..Len(s.cells) THEN SubSeq(s.cells, 1, s.fails_at - 1) ELSE s.cells

\* number of entries of the error log with the scope and the dependent
ErrorCount(scope, dependent) ==
  Cardinality({k \in 1..Len(errors) :
                 errors[k].scope = scope /\ errors[k].dependent = dependent})

\* the run has finished without a trial cutoff
FullScanDone == pc = "done" /\ ~truncated

\* what C23 says of a finished run: every sheet was entered and every formula
\* cell handed out was processed, in order; the error log has one parse_formula
\* entry per failing detection step of a cell, one graph_build entry per failing
\* edge insertion, one sheet_scan entry per failing sheet, and none else of
\* these scopes; the result holds a tier for every sheet and the workbook
ErrorsIsolated ==
  FullScanDone =>
    /\ \A i \in 1..Len(wb.sheets) :
          LET s == wb.sheets[i]
              out == CellsHandedOut(i)
          IN  /\ s.title \in DOMAIN formula_cells_by_sheet
              /\ formula_cells_by_sheet[s.title] = [k \in 1..Len(out) |-> out[k].addr]
              /\ ErrorCount("sheet_scan", s.title) =
                    (IF s.fails_at \in 1..(Len(s.cells) + 1) THEN 1 ELSE 0)
              /\ \A k \in 1..Len(out) :
                    LET dep == node_id(s.title, out[k].addr)
                        detect == IF Get(cfg.hardcoded_constants.enabled, TRUE)
                                    THEN {"volatile", "tokens", "constants"}
                                    ELSE {"volatile", "tokens"}
                    IN  /\ ErrorCount("parse_formula", dep) =
                              Cardinality(out[k].fails \cap detect)
                        /\ ErrorCount("graph_build", dep) =
                              (IF "graph" \in out[k].fails THEN 1 ELSE 0)
    /\ \A k \in 1..Len(errors) :
          /\ errors[k].scope \in {"parse_formula", "graph_build"} =>
                \E i \in 1..Len(wb.sheets) :
                   \E c \in Range(CellsHandedOut(i)) :
                      errors[k].dependent = node_id(wb.sheets[i].title, c.addr)
          /\ errors[k].scope = "sheet_scan" =>
                \E i \in 1..Len(wb.sheets) : errors[k].dependent = wb.sheets[i].title
    /\ Len(sheets_out) = Len(wb.sheets)
    /\ workbook_risk.workbook_risk \in {"LOW", "MEDIUM", "HIGH"}

\* C23: whatever per-cell steps and sheet iterations fail, the scan is not
\* aborted: the later cells and sheets are processed, each failure has exactly
\* one error entry of the matching scope, and the run reaches the tiering step
\* and yields a result.
C23_ErrorIsolation == []ErrorsIsolated /\ <>(pc = "done")

\* C23 witness: a finished run in which all four steps of S!A1 failed, a step of
\* S!B1 failed as well, and iterating sheet T raised
C23_Witness ==
  /\ FullScanDone
  /\ Len(wb.sheets) = 2
  /\ wb.sheets[1].fails_at = 0
  /\ wb.sheets[1].cells[1].fails = CellSteps
  /\ wb.sheets[1].cells[2].fails # {}
  /\ wb.sheets[2].fails_at = 1
  /\ Len(errors) >= 6

(***************************************************************************)
(* Properties of the tiers in the scan result.                             *)
(***************************************************************************)
\* the boolean rule as C24 words it, for the scope block sc of the configuration
\* and the scope's cycle flag and five signals
TierByRule(sc, has_cycles, top, vol, sym, consts, orphans) ==
  IF Get(sc.cycles_make_high, TRUE) /\ has_cycles THEN "HIGH"
  ELSE IF \E p \in {<<sc.top_risk_counts_as_medium, top>>,
                    <<sc.volatile_counts_as_medium, vol>>,
                    <<sc.symbolic_counts_as_medium, sym>>,
                    <<sc.constants_counts_as_medium, consts>>,
                    <<sc.orphans_counts_as_medium, orphans>>} :
             Get(p[1], TRUE) /\ p[2] > 0
    THEN "MEDIUM"
  ELSE "LOW"

\* the boolean fallback applies to the scope: thresholds and weights are not
\* both configured and the cycle override does not fire
FallbackApplies(scope, has_cycles) ==
  LET sc == cfg.risk_scoring[scope]
  IN  /\ sc.thresholds = Absent \/ sc.weights = Absent
      /\ ~(Get(cfg.risk_scoring.overrides.cycle_always_high, TRUE) /\ has_cycles)

\* every sheet block of the result has the tier of the rule for the sheet's
\* reported circular cells, its Top-N cells and its four signal counts
SheetTiersByRule ==
  \A i \in 1..Len(sheets_out) :
     LET b == sheets_out[i]
         sig == per_sheet_signals[b.sheet]
     IN  FallbackApplies("sheet", b.circular_cells > 0) =>
           b.risk = TierByRule(cfg.risk_scoring.sheet, b.circular_cells > 0, b.high_risk_cells,
                               sig.volatile, sig.symbolic, sig.constants, sig.orphans)

\* the workbook has the tier of the rule for the reported cycles, the Top-N list
\* and the workbook's signal counts, orphans taken as given
WorkbookTierByRule(orphans) ==
  FallbackApplies("workbook", Len(cycles) > 0) =>
    workbook_risk.workbook_risk =
      TierByRule(cfg.risk_scoring.workbook, Len(cycles) > 0, Len(top_risks),
                 counters.volatile_hits, counters.symbolic_refs,
                 counters.hardcoded_constants_hits, orphans)

\* the workbook tier follows the rule when the orphan formulas are left out
WorkbookTierIgnoresOrphans == pc = "done" => WorkbookTierByRule(0)

\* C24: in the scan result, where the boolean fallback applies, every sheet and
\* the workbook are HIGH iff cycles_make_high is enabled and the scope has
\* cycles, otherwise MEDIUM iff one of the scope's five signals (top-impact
\* cells, volatile hits, symbolic refs, embedded constants, orphan formulas) is
\* positive with its toggle enabled, otherwise LOW.
C24_FallbackTiers ==
  pc = "done" => SheetTiersByRule /\ WorkbookTierByRule(orphan_hits)

\* _compute_risk_tier has returned from its weighted branch: thresholds and
\* weights are configured for the scope and the cycle override did not fire
WeightedReturned ==
  /\ pc = "returned"
  /\ args.fn = "compute_risk_tier"
  /\ args.scoring_cfg[args.scope].thresholds # Absent
  /\ args.scoring_cfg[args.scope].weights # Absent
  /\ ~(Get(args.scoring_cfg.overrides.cycle_always_high, TRUE) /\ args.has_cycles)

\* the score of C25 in hundredths: weight x signal over cycles (0/1),
\* top_risk_cells, volatile, constants, orphans, and symbolic per 100
ClaimedScore100 ==
  LET w == args.scoring_cfg[args.scope].weights[1]
      sig == args.signals_map
  IN  100 * (Get(w.cycles, 0) * (IF args.has_cycles THEN 1 ELSE 0)
               + Get(w.top_risk_cells, 0) * args.top_risk_cells
               + Get(w.volatile_hits, 0) * Get(sig.volatile, 0)
               + Get(w.hardcoded_constants, 0) * Get(sig.constants, 0)
               + Get(w.orphan_formulas, 0) * Get(sig.orphans, 0))
        + Get(w.symbolic_refs_per_100, 0) * Get(sig.symbolic, 0)

\* C25: in the weighted branch, for thresholds.high and thresholds.medium
\* configured with any non-negative values, the tier is HIGH iff score >=
\* thresholds.high, MEDIUM iff thresholds.medium <= score < thresholds.high,
\* and LOW otherwise.
C25_WeightedTierByThresholds ==
  WeightedReturned =>
    LET th == args.scoring_cfg[args.scope].thresholds[1]
    IN  (th.high # Absent /\ th.medium # Absent /\ th.high[1] >= 0 /\ th.medium[1] >= 0) =>
          ret[1] = (IF ClaimedScore100 >= 100 * th.high[1] THEN "HIGH"
                    ELSE IF ClaimedScore100 >= 100 * th.medium[1] THEN "MEDIUM"
                    ELSE "LOW")

\* the same for thresholds that are both positive
WeightedTierByPositiveThresholds ==
  WeightedReturned =>
    LET th == args.scoring_cfg[args.scope].thresholds[1]
    IN  (th.high # Absent /\ th.medium # Absent /\ th.high[1] > 0 /\ th.medium[1] > 0) =>
          ret[1] = (IF ClaimedScore100 >= 100 * th.high[1] THEN "HIGH"
                    ELSE IF ClaimedScore100 >= 100 * th.medium[1] THEN "MEDIUM"
                    ELSE "LOW")

(***************************************************************************)
(* Properties of circular_reference_findings.                              *)
(***************************************************************************)
\* circular_reference_findings has returned
CircularReturned == pc = "returned" /\ args.fn = "circular_reference_findings"

\* C26: circular_reference_findings(g) has one item per cycle returned by
\* detect_cycles; the item of a cycle with exactly one cell has cycle_type
\* "self_reference", that of a longer cycle "multi_cell_cycle", and each item's
\* "cells" is the cycle's list of node identifiers.
C26_CyclesClassifiedBySize ==
  CircularReturned =>
    /\ Len(ret.items) = Len(cycles)
    /\ \A i \in 1..Len(cycles) :
          /\ ret.items[i].cycle_type =
                (IF Len(cycles[i].cells) = 1 THEN "self_reference" ELSE "multi_cell_cycle")
          /\ ret.items[i].cells.py = "list"
          /\ ret.items[i].cells.v = cycles[i].cells

(***************************************************************************)
(* Properties of the graph the scan builds.                                *)
(***************************************************************************)
\* the nodes of the formula cells the scan loop has processed
ScannedCellNodes ==
  UNION {{node_id(t, formula_cells_by_sheet[t][k]) : k \in 1..Len(formula_cells_by_sheet[t])} :
           t \in DOMAIN formula_cells_by_sheet}

\* C27: at every point of a scan every edge of the dependency graph leaves the
\* node of a scanned formula cell (a node that is only referred to, such as a
\* range, a whole row or column or a name, has no outgoing edge), and every
\* node of every cycle detect_cycles reports is the node of a scanned formula
\* cell.
C27_OnlyFormulaCellsHaveOutEdges ==
  /\ \A e \in EdgeSet(g) : e[1] \in ScannedCellNodes
  /\ \A i \in 1..Len(cycles) : Range(cycles[i].cells) \subseteq ScannedCellNodes

\* C27 witness: a finished scan whose graph holds range, whole-column, whole-row
\* and symbolic target nodes besides a reported cycle
C27_Witness ==
  /\ pc = "done"
  /\ Len(cycles) >= 1
  /\ \E n \in NodeSet(g) \ ScannedCellNodes : \E e \in EdgeSet(g) : e[2] = n
  /\ \A kind \in {"range", "whole_column", "whole_row"} :
        \E c \in Range(wb.sheets[1].cells) :
           \E t \in Range(c.tokens) :
              /\ t.kind = kind
              /\ RefNode(wb.sheets[1].title, t) \in NodeSet(g) \ ScannedCellNodes
  /\ \E k \in 1..Len(symbolic_edges) : symbolic_edges[k].ref \notin ScannedCellNodes

\* C28: at every point of the scan every identifier in formula_nodes is a node
\* of the graph, also for cells whose tokenization failed or gave no tokens, so
\* the impact ranker never meets a missing node (no error of scope impact).
C28_FormulaNodesAreGraphNodes ==
  /\ \A n \in Range(formula_nodes) : has_node(g, n)
  /\ \A k \in 1..Len(errors) : errors[k].scope # "impact"

\* C28 witness: a finished scan with a formula node whose tokenization failed
\* and one without tokens, and a ranked Top-N list
C28_Witness ==
  /\ pc = "done"
  /\ \E i \in 1..Len(wb.sheets) :
        \E c \in Range(wb.sheets[i].cells) :
           /\ "tokens" \in c.fails
           /\ node_id(wb.sheets[i].title, c.addr) \in Range(formula_nodes)
  /\ Len(top_risks) >= 1

\* LOW < MEDIUM < HIGH
TierRank(t) == CASE t = "LOW" -> 0 [] t = "MEDIUM" -> 1 [] t = "HIGH" -> 2

\* a finished scan run without risk-scoring configuration and with top_n >= 0
DefaultScoringDone == pc = "done" /\ cfg.risk_scoring = DefaultScoring /\ top_n >= 0

\* C29: with no risk-scoring configuration and top_n >= 0 the workbook tier of
\* the scan result is never lower than the tier of any of its sheets.
C29_WorkbookNotBelowSheets ==
  DefaultScoringDone =>
    \A i \in 1..Len(sheets_out) :
       TierRank(sheets_out[i].risk) <= TierRank(workbook_risk.workbook_risk)

\* the same for the sheets without orphan formulas
WorkbookNotBelowOrphanFreeSheets ==
  DefaultScoringDone =>
    \A i \in 1..Len(sheets_out) :
       per_sheet_signals[sheets_out[i].sheet].orphans = 0 =>
         TierRank(sheets_out[i].risk) <= TierRank(workbook_risk.workbook_risk)

(***************************************************************************)
(* Properties of the capped finding lists.                                 *)
(***************************************************************************)
\* concatenation of a sequence of sequences
RECURSIVE Flatten(_)
Flatten(seqs) == IF seqs = <<>> THEN <<>> ELSE Head(seqs) \o Flatten(Tail(seqs))

\* the formula cells of sheet i the loop has processed
ProcessedCells(i) ==
  LET s == wb.sheets[i]
  IN  IF s.title \in DOMAIN formula_cells_by_sheet
        THEN SubSeq(s.cells, 1, Len(formula_cells_by_sheet[s.title]))
        ELSE <<>>

\* every constant hit of the processed formulas, in scan order
AllConstantHits ==
  LET found(c) == IF Get(cfg.hardcoded_constants.enabled, TRUE) /\ "constants" \notin c.fails
                    THEN c.hits ELSE 0
      OfCell(title, c) == [k \in 1..found(c) |-> [sheet |-> title, cell |-> c.addr, hit |-> k]]
      OfSheet(i) == Flatten([k \in 1..Len(ProcessedCells(i)) |->
                               OfCell(wb.sheets[i].title, ProcessedCells(i)[k])])
  IN  Flatten([i \in 1..Len(wb.sheets) |-> OfSheet(i)])

\* every orphan formula cell, in scan order: the formula nodes that no exclusion
\* skips and that have no formula node among their predecessors
AllOrphans ==
  LET IsOrphan(n) ==
        /\ ~OrphanSkipped(wb, cfg.orphan_calculations, n)
        /\ predecessors(g, n) \cap Range(formula_nodes) = {}
  IN  IF Get(cfg.orphan_calculations.enabled, TRUE)
        THEN SelectSeq(formula_nodes, IsOrphan) ELSE <<>>

\* the cap of a list: the configured max_findings, 100 when none is configured
CapOf(block) == Get(block.max_findings, DEFAULT_MAX_FINDINGS)

\* the first n entries of a list
FirstUpTo(seq, n) == SubSeq(seq, 1, Min(n, Len(seq)))

\* the two signal counts of the result are the totals
CountsAreTotals ==
  pc = "done" =>
    /\ counters.hardcoded_constants_hits = Len(AllConstantHits)
    /\ orphan_hits = Len(AllOrphans)

\* the two lists are the first max_findings findings in scan order
ListsAreCapped ==
  pc = "done" =>
    /\ hardcoded_constants_findings =
          FirstUpTo(AllConstantHits, CapOf(cfg.hardcoded_constants))
    /\ [k \in 1..Len(orphan_findings) |->
          node_id(orphan_findings[k].sheet, orphan_findings[k].cell)] =
          FirstUpTo(AllOrphans, CapOf(cfg.orphan_calculations))

\* C30: at the end of any scan signals.hardcoded_constants is the total number
\* of constant hits over all scanned formulas and signals.orphan_formulas the
\* total number of orphan formula cells, whatever max_findings is, while the
\* hardcoded_constants and orphan_formulas lists hold at most max_findings
\* entries, the first ones in scan order.
C30_CapsTruncateListsOnly == CountsAreTotals /\ ListsAreCapped

\* the same for runs in which no max_findings is configured as 0
CapsTruncateListsOnlyForPositiveCaps ==
  (CapOf(cfg.hardcoded_constants) > 0 /\ CapOf(cfg.orphan_calculations) > 0) =>
     CountsAreTotals /\ ListsAreCapped

=============================================================================
